---- MODULE Spec2Model ----
(***************************************************************************)
(* tame-oauth: the token cache (src/token_cache.rs), the cached provider   *)
(* wrapper and the three GCP inner providers (service account, end user,   *)
(* metadata server), modelled as a state machine.                          *)
(*                                                                         *)
(* State: the inner provider variant, the wall clock, the two caches of a  *)
(* CachedTokenProvider, what each racing thread holds, and the outcome of  *)
(* the most recent call.  returned_tokens and returned_id_tokens are       *)
(* history: per hash, the token the latest successful parse returned to    *)
(* its caller.                                                             *)
(*                                                                         *)
(* Every provider method touches the shared caches in one critical section *)
(* (one RwLock read or write), so each call is one atomic action.  The     *)
(* wall clock only moves forward.  The providers are built from usable     *)
(* credentials and asked with URI-safe strings, so building and signing a  *)
(* request succeeds.  poisoned holds the caches whose RwLock a thread left  *)
(* poisoned by panicking while it held the write lock; the library's own   *)
(* code under the lock does not panic, so only SpecPoison has that step.   *)
(***************************************************************************)
EXTENDS Integers, Sequences, FiniteSets, TLC

VARIABLES inner, now, access_tokens, id_tokens, poisoned, callers, last,
          returned_tokens, returned_id_tokens

vars == <<inner, now, access_tokens, id_tokens, poisoned, callers, last,
          returned_tokens, returned_id_tokens>>

----------------------------------------------------------------------------
(* Bounds of the model.                                                    *)

\* The clock runs over 0..MaxTime.
MaxTime == 2
\* Threads racing in SpecRace.
NCallers == 2
\* Width, in bits, of the seconds counter of SystemTime / Duration, scaled
\* down from 64 so that the overflow cases are within TLC's integers.
TimeBits == 4

----------------------------------------------------------------------------
(* Option<T>: None is the empty sequence, Some(v) a one-element sequence.  *)

None == << >>
Some(v) == <<v>>
is_some(o) == o # None
unwrap(o) == o[1]

----------------------------------------------------------------------------
(* Strings, scopes and hashes.                                             *)

RECURSIVE join(_, _)
\* [&str].join(sep)
join(strs, sep) ==
    IF Len(strs) = 0 THEN ""
    ELSE IF Len(strs) = 1 THEN strs[1]
    ELSE strs[1] \o sep \o join(Tail(strs), sep)

\* The scope lists callers ask tokens for.
ScopeLists == { <<"a", "b">>, <<"b", "a">>, <<"a|b">> }

\* The audiences callers ask ID tokens for.
Audiences == { "x", "a|b" }

\* Subjects a caller may pass to get_token_with_subject.
Subjects == { None, Some("sub") }

\* twox_hash::XxHash, as a collision-free map of the strings the model
\* hashes to u64 values; none of them is 0, the placeholder hash of the
\* uncached providers.
HashTable == <<"b|a", "x", "a|b">>

hash_str(str) == CHOOSE i \in 1..Len(HashTable) : HashTable[i] = str

\* Variant of hash_scopes that puts the scopes in a fixed order first.
hash_scopes_sorted(scopes) ==
    hash_str(join(SelectSeq(<<"a", "a|b", "b">>,
                            LAMBDA s : \E i \in 1..Len(scopes) : scopes[i] = s), "|"))

hash_scopes(scopes) == hash_str(join(scopes, "|"))

Hashes == 1..Len(HashTable)

----------------------------------------------------------------------------
(* Tokens and expiry.                                                      *)

\* SystemTime::checked_add(Duration::from_secs(secs)): the seconds are a
\* signed TimeBits-bit counter, None on overflow.
SystemTimeMax == 2^(TimeBits - 1) - 1

\* Variant of checked_add that stops at the last second a SystemTime holds.
saturating_add(t, secs) == IF t + secs > SystemTimeMax THEN Some(SystemTimeMax) ELSE Some(t + secs)

checked_add(t, secs) == IF t + secs > SystemTimeMax THEN None ELSE Some(t + secs)

\* `expires_in as u64`
as_u64(i) == i % (2^TimeBits)

\* Variant of has_expired under which a token lives through its last second.
Token_has_expired_late(token, t) ==
    IF token.access_token = "" THEN TRUE
    ELSE LET expiry == IF is_some(token.expires_in_timestamp)
                       THEN unwrap(token.expires_in_timestamp) ELSE t
         IN  expiry < t

\* impl CacheableToken for Token
Token_has_expired(token, t) ==
    IF token.access_token = "" THEN TRUE
    ELSE LET expiry == IF is_some(token.expires_in_timestamp)
                       THEN unwrap(token.expires_in_timestamp) ELSE t
         IN  expiry <= t

\* A token string that may hold dots is the sequence of its '.'-separated
\* segments; the empty string is the single empty segment.
Seg(text, b64, exp) == [text |-> text, b64 |-> b64, exp |-> exp]

EmptyString == << Seg("", TRUE, None) >>

\* impl CacheableToken for IdToken
IdToken_has_expired(token, t) ==
    IF token.token = EmptyString THEN TRUE
    ELSE token.expiration <= t

\* CacheableToken::has_expired, dispatched on the cached type.
has_expired(token, t) ==
    IF "access_token" \in DOMAIN token THEN Token_has_expired(token, t)
    ELSE IdToken_has_expired(token, t)

\* impl From<TokenResponse> for Token, at wall-clock time t.
Token_from(tr, t) ==
    [ access_token         |-> tr.access_token,
      token_type           |-> tr.token_type,
      refresh_token        |-> "",
      expires_in           |-> Some(tr.expires_in),
      expires_in_timestamp |-> checked_add(t, as_u64(tr.expires_in)) ]

----------------------------------------------------------------------------
(* TokenCache<T>: a vector of Entry { hash, token } kept sorted by hash.   *)

RECURSIVE binary_search(_, _, _, _)
\* slice::binary_search_by over cache[lo .. hi-1]: found with the index of
\* the match, or not found with the index where the hash would be inserted.
binary_search(cache, hash, lo, hi) ==
    IF lo >= hi THEN [found |-> FALSE, idx |-> lo]
    ELSE LET mid == (lo + hi) \div 2
         IN  IF cache[mid].hash = hash THEN [found |-> TRUE, idx |-> mid]
             ELSE IF cache[mid].hash < hash
                  THEN binary_search(cache, hash, mid + 1, hi)
                  ELSE binary_search(cache, hash, lo, mid)

binary_search_by(cache, hash) == binary_search(cache, hash, 1, Len(cache) + 1)

\* Vec::insert(i, entry), i counted from 1.
Vec_insert(v, i, e) == SubSeq(v, 1, i - 1) \o <<e>> \o SubSeq(v, i, Len(v))

\* Variant of TokenCache::get that does not look at the expiry.
TokenCache_get_stale(cache, hash, t) ==
    LET r == binary_search_by(cache, hash)
    IN  IF r.found
        THEN [type |-> "Token", token |-> cache[r.idx].token, reason |-> None]
        ELSE [type |-> "RequestReason", token |-> None,
              reason |-> Some("ParametersChanged")]

\* TokenCache::get at wall-clock time t: TokenOrRequestReason.
TokenCache_get(cache, hash, t) ==
    LET r == binary_search_by(cache, hash)
    IN  IF r.found
        THEN IF ~has_expired(cache[r.idx].token, t)
             THEN [type |-> "Token", token |-> cache[r.idx].token, reason |-> None]
             ELSE [type |-> "RequestReason", token |-> None,
                   reason |-> Some("Expired")]
        ELSE [type |-> "RequestReason", token |-> None,
              reason |-> Some("ParametersChanged")]

\* Variant of TokenCache::insert that writes a new entry over the slot the
\* search points at.
TokenCache_insert_displacing(cache, token, hash) ==
    LET r == binary_search_by(cache, hash)
    IN  IF r.found THEN [cache EXCEPT ![r.idx].token = token]
        ELSE IF r.idx <= Len(cache)
        THEN [cache EXCEPT ![r.idx] = [hash |-> hash, token |-> token]]
        ELSE Append(cache, [hash |-> hash, token |-> token])

\* Variant of TokenCache::insert that keeps the entry a hash already has.
TokenCache_insert_first_wins(cache, token, hash) ==
    LET r == binary_search_by(cache, hash)
    IN  IF r.found THEN cache
        ELSE Vec_insert(cache, r.idx, [hash |-> hash, token |-> token])

\* Variant of TokenCache::insert that adds an entry even on a match.
TokenCache_insert_duplicating(cache, token, hash) ==
    LET r == binary_search_by(cache, hash)
    IN  Vec_insert(cache, r.idx, [hash |-> hash, token |-> token])

\* Variant of TokenCache::insert that pushes a new entry at the end.
TokenCache_insert_append(cache, token, hash) ==
    LET r == binary_search_by(cache, hash)
    IN  IF r.found THEN [cache EXCEPT ![r.idx].token = token]
        ELSE Append(cache, [hash |-> hash, token |-> token])

\* TokenCache::insert: last token wins.
TokenCache_insert(cache, token, hash) ==
    LET r == binary_search_by(cache, hash)
    IN  IF r.found THEN [cache EXCEPT ![r.idx].token = token]
        ELSE Vec_insert(cache, r.idx, [hash |-> hash, token |-> token])

\* The two methods as a caller of TokenCache sees them: the lock is taken
\* first, and a poisoned lock is reported as Error::Poisoned.
Poisoned == [ok |-> FALSE, error |-> [kind |-> "Poisoned"]]

\* Variant of get that drops the expired entry it finds.
TokenCache_try_get_evicting(is_poisoned, cache, hash, t) ==
    IF is_poisoned THEN Poisoned
    ELSE [ok |-> TRUE, value |-> TokenCache_get(cache, hash, t),
          cache |-> SelectSeq(cache, LAMBDA e :
                        ~(e.hash = hash /\ has_expired(e.token, t)))]

\* get(hash) behind the read lock: the outcome of the lookup and the
\* entries it leaves, which the shared guard cannot change.
TokenCache_try_get(is_poisoned, cache, hash, t) ==
    IF is_poisoned THEN Poisoned
    ELSE [ok |-> TRUE, value |-> TokenCache_get(cache, hash, t), cache |-> cache]

\* Variant of insert that writes through a poisoned lock.
TokenCache_try_insert_through(is_poisoned, cache, token, hash) ==
    [ok |-> TRUE, value |-> TokenCache_insert(cache, token, hash)]

TokenCache_try_insert(is_poisoned, cache, token, hash) ==
    IF is_poisoned THEN Poisoned
    ELSE [ok |-> TRUE, value |-> TokenCache_insert(cache, token, hash)]

----------------------------------------------------------------------------
(* HTTP responses and their bodies.                                        *)
(*                                                                         *)
(* A body is JSON (an object, given by its fields) or raw bytes.  A JWT    *)
(* string is the sequence of its '.'-separated segments; a segment records *)
(* whether it decodes as base64url without padding and, if the decoded     *)
(* bytes are a JSON object with a u64 "exp", that value.                   *)

JSON_CT == "application/json; charset=utf-8"

Jwt(name, exp) == << Seg("hdr", TRUE, None), Seg(name, TRUE, Some(exp)),
                     Seg("sig", TRUE, None) >>

JsonBody(obj) == [json |-> TRUE, obj |-> obj, raw |-> EmptyString]
RawBody(segs) == [json |-> FALSE, obj |-> [none |-> 0], raw |-> segs]

Response(status, ct, body) == [status |-> status, content_type |-> ct, body |-> body]

\* http::StatusCode::is_success
is_success(status) == 200 <= status /\ status <= 299

Ok(v) == [ok |-> TRUE, value |-> v]
Err(e) == [ok |-> FALSE, error |-> e]

AuthErr(error, desc) == [kind |-> "Auth", error |-> error, error_description |-> desc]

Unsupported(desc) == Err(AuthErr(Some("Unsupported"), Some(desc)))

\* serde_json::from_slice::<error::AuthError>: every JSON object
\* deserializes, a missing field as None.
parse_AuthError(body) ==
    IF ~body.json THEN Err([kind |-> "Json"])
    ELSE Ok(AuthErr(
           IF "error" \in DOMAIN body.obj THEN Some(body.obj.error) ELSE None,
           IF "error_description" \in DOMAIN body.obj
           THEN Some(body.obj.error_description) ELSE None))

\* serde_json::from_slice::<TokenResponse>
parse_TokenResponse(body) ==
    IF body.json /\ {"access_token", "token_type", "expires_in"} \subseteq DOMAIN body.obj
    THEN Ok([access_token |-> body.obj.access_token,
             token_type   |-> body.obj.token_type,
             expires_in   |-> body.obj.expires_in])
    ELSE Err([kind |-> "Json"])

\* serde_json::from_slice::<IdTokenResponseBody>, whose one field is named
\* `field` ("token" for a service account, "id_token" for an end user).
parse_IdTokenResponseBody(body, field) ==
    IF body.json /\ field \in DOMAIN body.obj
    THEN Ok(body.obj[field])
    ELSE Err([kind |-> "Json"])

\* The error both service-account parsers and the end-user ID-token parser
\* return for a non-2xx response.
auth_or_status(response) ==
    IF response.content_type = Some(JSON_CT) /\ parse_AuthError(response.body).ok
    THEN Err(parse_AuthError(response.body).value)
    ELSE Err([kind |-> "HttpStatus", status |-> response.status])

\* Variant of IdToken::new that adds exp to the epoch unchecked.
IdToken_new_unchecked(token) ==
    IF Len(token) < 2 THEN Err([kind |-> "InvalidTokenFormat"])
    ELSE LET claims == token[2]
         IN  IF ~claims.b64 THEN Err([kind |-> "Base64Decode"])
             ELSE IF claims.exp = None THEN Err([kind |-> "Json"])
             ELSE Ok([token |-> token, expiration |-> unwrap(claims.exp)])

\* IdToken::new
IdToken_new(token) ==
    IF Len(token) < 2 THEN Err([kind |-> "InvalidTokenFormat"])
    ELSE LET claims == token[2]
         IN  IF ~claims.b64 THEN Err([kind |-> "Base64Decode"])
             ELSE IF claims.exp = None THEN Err([kind |-> "Json"])
             ELSE Ok([token      |-> token,
                      expiration |-> IF is_some(checked_add(0, unwrap(claims.exp)))
                                     THEN unwrap(checked_add(0, unwrap(claims.exp)))
                                     ELSE 0])

\* String::from_utf8_lossy(body): the text of a JSON body holding a JWT is
\* cut by the dots of that JWT.
body_text(body) ==
    IF ~body.json THEN body.raw
    ELSE LET f == IF "token" \in DOMAIN body.obj THEN body.obj.token
                  ELSE IF "id_token" \in DOMAIN body.obj THEN body.obj.id_token
                  ELSE EmptyString
         IN  IF Len(f) = 1 THEN << Seg("{json}", FALSE, None) >>
             ELSE IF Len(f) = 2
                  THEN << Seg("{json", FALSE, None), Seg("json}", FALSE, None) >>
                  ELSE << Seg("{json", FALSE, None) >> \o SubSeq(f, 2, Len(f) - 1)
                       \o << Seg("json}", FALSE, None) >>

----------------------------------------------------------------------------
(* The uncached providers.  A request is kept as the parts the callers     *)
(* and the claims look at.                                                 *)

METADATA_URL == "http://metadata.google.internal/computeMetadata/v1/instance/service-accounts"

Request(reason, request) ==
    Ok([type |-> "Request", request |-> request, reason |-> reason, scope_hash |-> 0])

\* ServiceAccountProviderInner::prepare_access_token_request at time t
prepare_access_token_request(subject, scopes, t) ==
    [ method       |-> "POST",
      uri          |-> "token_uri",
      content_type |-> "application/x-www-form-urlencoded",
      grant_type   |-> "urn:ietf:params:oauth:grant-type:jwt-bearer",
      assertion    |-> [ iss   |-> "client_email",
                         scope |-> join(scopes, " "),
                         aud   |-> "token_uri",
                         exp   |-> t + 3600 - 5,
                         iat   |-> t,
                         sub   |-> subject ] ]

\* EndUserCredentialsInner::prepare_token_request
prepare_token_request ==
    [ method        |-> "POST",
      uri           |-> "https://oauth2.googleapis.com/token",
      content_type  |-> "application/x-www-form-urlencoded",
      client_id     |-> "client_id",
      client_secret |-> "client_secret",
      grant_type    |-> "refresh_token",
      refresh_token |-> "refresh_token" ]

\* impl TokenProvider for ServiceAccountProviderInner
ServiceAccount_get_token_with_subject(subject, scopes, t) ==
    Request("ParametersChanged", prepare_access_token_request(subject, scopes, t))

\* Variant of parse_token_response that reports every non-2xx by its status.
ServiceAccount_parse_token_response_status_only(hash, response, t) ==
    IF ~is_success(response.status)
    THEN Err([kind |-> "HttpStatus", status |-> response.status])
    ELSE LET token_res == parse_TokenResponse(response.body)
         IN  IF ~token_res.ok THEN token_res
             ELSE Ok(Token_from(token_res.value, t))

ServiceAccount_parse_token_response(hash, response, t) ==
    IF ~is_success(response.status) THEN auth_or_status(response)
    ELSE LET token_res == parse_TokenResponse(response.body)
         IN  IF ~token_res.ok THEN token_res
             ELSE Ok(Token_from(token_res.value, t))

\* Variant in which the end-user request asks for the scopes.
EndUser_get_token_with_subject_scoped(subject, scopes, t) ==
    IF is_some(subject)
    THEN Unsupported("ADC / User tokens do not support jwt subjects")
    ELSE Request("ParametersChanged",
                 [ method        |-> "POST",
                   uri           |-> "https://oauth2.googleapis.com/token",
                   content_type  |-> "application/x-www-form-urlencoded",
                   client_id     |-> "client_id",
                   client_secret |-> "client_secret",
                   grant_type    |-> "refresh_token",
                   refresh_token |-> "refresh_token",
                   scope         |-> join(scopes, " ") ])

\* impl TokenProvider for EndUserCredentialsInner
EndUser_get_token_with_subject(subject, scopes, t) ==
    IF is_some(subject)
    THEN Unsupported("ADC / User tokens do not support jwt subjects")
    ELSE Request("ParametersChanged", prepare_token_request)

EndUser_parse_token_response(hash, response, t) ==
    IF ~is_success(response.status)
    THEN Err([kind |-> "HttpStatus", status |-> response.status])
    ELSE LET token_res == parse_TokenResponse(response.body)
         IN  IF ~token_res.ok THEN token_res
             ELSE Ok(Token_from(token_res.value, t))

\* Variant of the metadata request that separates the scopes by spaces.
MetadataServerProviderInner_get_token_with_subject_spaced(account_name, subject, scopes) ==
    IF is_some(subject)
    THEN Unsupported("Metadata server tokens do not support jwt subjects")
    ELSE LET scopes_str == join(scopes, " ")
             url == METADATA_URL \o "/" \o account_name \o "/token"
         IN  Request("ParametersChanged",
                     [ method |-> "GET",
                       uri    |-> IF scopes_str # "" THEN url \o "?scopes=" \o scopes_str
                                  ELSE url,
                       metadata_flavor |-> "Google" ])

\* impl TokenProvider for MetadataServerProviderInner, for the provider of
\* account account_name
MetadataServerProviderInner_get_token_with_subject(account_name, subject, scopes) ==
    IF is_some(subject)
    THEN Unsupported("Metadata server tokens do not support jwt subjects")
    ELSE LET scopes_str == join(scopes, ",")
             url == METADATA_URL \o "/" \o account_name \o "/token"
         IN  Request("ParametersChanged",
                     [ method |-> "GET",
                       uri    |-> IF scopes_str # "" THEN url \o "?scopes=" \o scopes_str
                                  ELSE url,
                       metadata_flavor |-> "Google" ])

\* The same for the provider of account "default", the one the default
\* credentials build.
Metadata_get_token_with_subject(subject, scopes, t) ==
    MetadataServerProviderInner_get_token_with_subject("default", subject, scopes)

Metadata_parse_token_response(hash, response, t) ==
    IF ~is_success(response.status)
    THEN Err([kind |-> "HttpStatus", status |-> response.status])
    ELSE LET token_res == parse_TokenResponse(response.body)
         IN  IF ~token_res.ok THEN token_res
             ELSE Ok(Token_from(token_res.value, t))

\* impl IdTokenProvider for ServiceAccountProviderInner
ServiceAccount_get_id_token(audience, t) ==
    Ok([ type          |-> "AccessTokenRequest",
         request       |-> prepare_access_token_request(
                               None, <<"https://www.googleapis.com/auth/iam">>, t),
         reason        |-> "ParametersChanged",
         audience_hash |-> 0 ])

\* Texts with a byte that HeaderValue::from_str refuses (a line feed).
InvalidHeaderTexts == { "t\n3" }

\* impl TryInto<HeaderValue> for Token
Token_try_into(token) ==
    IF token.token_type \in InvalidHeaderTexts \/ token.access_token \in InvalidHeaderTexts
    THEN Err([kind |-> "Http"])
    ELSE Ok(token.token_type \o " " \o token.access_token)

\* Variant of get_id_token_with_access_token that does not parse the response.
ServiceAccount_get_id_token_with_access_token_unparsed(audience, response, t) ==
    Ok([ method        |-> "POST",
         uri           |-> "https://iamcredentials.googleapis.com/v1/projects/-/serviceAccounts/"
                           \o "client_email" \o ":generateIdToken",
         content_type  |-> JSON_CT,
         authorization |-> "Bearer ",
         body          |-> [audience |-> audience, includeEmail |-> TRUE] ])

ServiceAccount_get_id_token_with_access_token(audience, response, t) ==
    LET token == ServiceAccount_parse_token_response(0, response, t)
    IN  IF ~token.ok THEN token
        ELSE LET token_header_value == Token_try_into(token.value)
             IN  IF ~token_header_value.ok THEN token_header_value
                 ELSE Ok([ method        |-> "POST",
                           uri           |-> "https://iamcredentials.googleapis.com/v1/projects/-/serviceAccounts/"
                                             \o "client_email" \o ":generateIdToken",
                           content_type  |-> JSON_CT,
                           authorization |-> token_header_value.value,
                           body          |-> [audience |-> audience, includeEmail |-> TRUE] ])

ServiceAccount_parse_id_token_response(hash, response) ==
    IF ~is_success(response.status) THEN auth_or_status(response)
    ELSE LET token_res == parse_IdTokenResponseBody(response.body, "token")
         IN  IF ~token_res.ok THEN token_res
             ELSE IdToken_new(token_res.value)

\* impl IdTokenProvider for EndUserCredentialsInner
EndUser_get_id_token(audience, t) ==
    Ok([ type          |-> "IdTokenRequest",
         request       |-> prepare_token_request,
         reason        |-> "ParametersChanged",
         audience_hash |-> 0 ])

\* Variant in which an end user follows the service-account flow.
EndUser_get_id_token_with_access_token_as_service_account(audience, response, t) ==
    ServiceAccount_get_id_token_with_access_token(audience, response, t)

EndUser_get_id_token_with_access_token(audience, response, t) ==
    Unsupported("User credentials id tokens via access token not supported")

EndUser_parse_id_token_response(hash, response) ==
    IF ~is_success(response.status) THEN auth_or_status(response)
    ELSE LET token_res == parse_IdTokenResponseBody(response.body, "id_token")
         IN  IF ~token_res.ok THEN token_res
             ELSE IdToken_new(token_res.value)

\* impl IdTokenProvider for MetadataServerProviderInner
Metadata_get_id_token(audience, t) ==
    Ok([ type          |-> "IdTokenRequest",
         request       |-> [ method |-> "GET",
                             uri    |-> METADATA_URL \o "/" \o "default"
                                        \o "/identity?audience=" \o audience,
                             metadata_flavor |-> "Google" ],
         reason        |-> "ParametersChanged",
         audience_hash |-> 0 ])

Metadata_get_id_token_with_access_token(audience, response, t) ==
    Unsupported("Metadata server id tokens via access token not supported")

Metadata_parse_id_token_response(hash, response) ==
    IF ~is_success(response.status)
    THEN Err([kind |-> "HttpStatus", status |-> response.status])
    ELSE IdToken_new(body_text(response.body))

----------------------------------------------------------------------------
(* TokenProviderWrapperInner: the sum of the three providers, dispatching  *)
(* every method to the variant p.                                          *)

Kinds == {"ServiceAccount", "EndUser", "Metadata"}

\* TokenProviderWrapperInner::kind and the three tests of the variant.
TokenProviderWrapperInner_kind(p) ==
    CASE p = "EndUser"        -> "End User"
      [] p = "Metadata"       -> "Metadata Server"
      [] p = "ServiceAccount" -> "Service Account"

is_service_account_provider(p) == p = "ServiceAccount"
is_metadata_server_provider(p) == p = "Metadata"
is_end_user_credentials_provider(p) == p = "EndUser"

\* Variant that sends the end-user variant's get_token_with_subject to the
\* metadata server provider.
Inner_get_token_with_subject_misrouted(p, subject, scopes, t) ==
    CASE p = "EndUser"        -> Metadata_get_token_with_subject(subject, scopes, t)
      [] p = "Metadata"       -> Metadata_get_token_with_subject(subject, scopes, t)
      [] p = "ServiceAccount" -> ServiceAccount_get_token_with_subject(subject, scopes, t)

Inner_get_token_with_subject(p, subject, scopes, t) ==
    CASE p = "EndUser"        -> EndUser_get_token_with_subject(subject, scopes, t)
      [] p = "Metadata"       -> Metadata_get_token_with_subject(subject, scopes, t)
      [] p = "ServiceAccount" -> ServiceAccount_get_token_with_subject(subject, scopes, t)

Inner_parse_token_response(p, hash, response, t) ==
    CASE p = "EndUser"        -> EndUser_parse_token_response(hash, response, t)
      [] p = "Metadata"       -> Metadata_parse_token_response(hash, response, t)
      [] p = "ServiceAccount" -> ServiceAccount_parse_token_response(hash, response, t)

Inner_get_id_token(p, audience, t) ==
    CASE p = "EndUser"        -> EndUser_get_id_token(audience, t)
      [] p = "Metadata"       -> Metadata_get_id_token(audience, t)
      [] p = "ServiceAccount" -> ServiceAccount_get_id_token(audience, t)

Inner_get_id_token_with_access_token(p, audience, response, t) ==
    CASE p = "EndUser"        -> EndUser_get_id_token_with_access_token(audience, response, t)
      [] p = "Metadata"       -> Metadata_get_id_token_with_access_token(audience, response, t)
      [] p = "ServiceAccount" -> ServiceAccount_get_id_token_with_access_token(audience, response, t)

Inner_parse_id_token_response(p, hash, response) ==
    CASE p = "EndUser"        -> EndUser_parse_id_token_response(hash, response)
      [] p = "Metadata"       -> Metadata_parse_id_token_response(hash, response)
      [] p = "ServiceAccount" -> ServiceAccount_parse_id_token_response(hash, response)

----------------------------------------------------------------------------
(* CachedTokenProvider<P>: the inner provider p behind the two caches.     *)
(* A method is given whether the lock of its cache is poisoned and the     *)
(* entries of that cache.  It gives its result and, for the checks,        *)
(* whether it invoked the inner provider, and the entries it leaves.       *)

\* Variant of get_token_with_subject that never consults the cache.
CachedTokenProvider_get_token_with_subject_uncached(p, is_poisoned, cache, subject, scopes, t) ==
    LET r == Inner_get_token_with_subject(p, subject, scopes, t)
    IN  [res |-> IF ~r.ok \/ r.value.type = "Token" THEN r
                 ELSE Ok([type       |-> "Request",
                          request    |-> r.value.request,
                          reason     |-> "ParametersChanged",
                          scope_hash |-> hash_scopes(scopes)]),
         inner_called |-> TRUE, cache |-> cache]

\* Variant of get_token_with_subject that passes the inner request through.
CachedTokenProvider_get_token_with_subject_unwrapped(p, is_poisoned, cache, subject, scopes, t) ==
    LET cached == TokenCache_get(cache, hash_scopes(scopes), t)
    IN  IF cached.type = "Token"
        THEN [res |-> Ok([type |-> "Token", token |-> cached.token]),
              inner_called |-> FALSE, cache |-> cache]
        ELSE [res |-> Inner_get_token_with_subject(p, subject, scopes, t),
              inner_called |-> TRUE, cache |-> cache]

\* impl TokenProvider for CachedTokenProvider, at time t
CachedTokenProvider_get_token_with_subject(p, is_poisoned, cache, subject, scopes, t) ==
    LET scope_hash == hash_scopes(scopes)
        got == TokenCache_try_get(is_poisoned, cache, scope_hash, t)
        cached == got.value
    IN  IF ~got.ok THEN [res |-> got, inner_called |-> FALSE, cache |-> cache]
        ELSE IF cached.type = "Token"
        THEN [res |-> Ok([type |-> "Token", token |-> cached.token]),
              inner_called |-> FALSE, cache |-> got.cache]
        ELSE LET r == Inner_get_token_with_subject(p, subject, scopes, t)
             IN  [res |-> IF ~r.ok \/ r.value.type = "Token" THEN r
                          ELSE Ok([type       |-> "Request",
                                   request    |-> r.value.request,
                                   reason     |-> unwrap(cached.reason),
                                   scope_hash |-> scope_hash]),
                  inner_called |-> TRUE, cache |-> got.cache]

\* Variant of parse_token_response that drops the entry of hash when the
\* response does not parse.
CachedTokenProvider_parse_token_response_clearing(p, is_poisoned, cache, hash, response, t) ==
    LET token == Inner_parse_token_response(p, hash, response, t)
    IN  IF ~token.ok
        THEN [res |-> token, cache |-> SelectSeq(cache, LAMBDA e : e.hash # hash)]
        ELSE LET inserted == TokenCache_try_insert(is_poisoned, cache, token.value, hash)
             IN  IF ~inserted.ok THEN [res |-> inserted, cache |-> cache]
                 ELSE [res |-> token, cache |-> inserted.value]

\* Variant of parse_token_response that does not insert the token.
CachedTokenProvider_parse_token_response_unstored(p, is_poisoned, cache, hash, response, t) ==
    [res |-> Inner_parse_token_response(p, hash, response, t), cache |-> cache]

CachedTokenProvider_parse_token_response(p, is_poisoned, cache, hash, response, t) ==
    LET token == Inner_parse_token_response(p, hash, response, t)
    IN  IF ~token.ok THEN [res |-> token, cache |-> cache]
        ELSE LET inserted == TokenCache_try_insert(is_poisoned, cache, token.value, hash)
             IN  IF ~inserted.ok THEN [res |-> inserted, cache |-> cache]
                 ELSE [res |-> token, cache |-> inserted.value]

\* Variant of get_id_token that passes the inner request through.
CachedTokenProvider_get_id_token_unwrapped(p, is_poisoned, cache, audience, t) ==
    LET cached == TokenCache_get(cache, hash_str(audience), t)
    IN  IF cached.type = "Token"
        THEN [res |-> Ok([type |-> "IdToken", token |-> cached.token]),
              inner_called |-> FALSE, cache |-> cache]
        ELSE [res |-> Inner_get_id_token(p, audience, t), inner_called |-> TRUE, cache |-> cache]

\* impl IdTokenProvider for CachedTokenProvider, at time t
CachedTokenProvider_get_id_token(p, is_poisoned, cache, audience, t) ==
    LET hash == hash_str(audience)
        got == TokenCache_try_get(is_poisoned, cache, hash, t)
        cached == got.value
    IN  IF ~got.ok THEN [res |-> got, inner_called |-> FALSE, cache |-> cache]
        ELSE IF cached.type = "Token"
        THEN [res |-> Ok([type |-> "IdToken", token |-> cached.token]),
              inner_called |-> FALSE, cache |-> got.cache]
        ELSE LET r == Inner_get_id_token(p, audience, t)
             IN  [res |-> IF ~r.ok \/ r.value.type = "IdToken" THEN r
                          ELSE Ok([type          |-> r.value.type,
                                   request       |-> r.value.request,
                                   reason        |-> unwrap(cached.reason),
                                   audience_hash |-> hash]),
                  inner_called |-> TRUE, cache |-> got.cache]

\* Variant of get_id_token_with_access_token that keeps the access token
\* of the response in the access-token cache.
CachedTokenProvider_get_id_token_with_access_token_caching(p, cache, audience, response, t) ==
    LET token == Inner_parse_token_response(p, 0, response, t)
    IN  [res   |-> Inner_get_id_token_with_access_token(p, audience, response, t),
         cache |-> IF token.ok /\ p = "ServiceAccount"
                   THEN TokenCache_insert(cache, token.value, hash_str(audience))
                   ELSE cache]

\* cache holds the entries of the access-token cache, which the method has
\* no statement to touch.
CachedTokenProvider_get_id_token_with_access_token(p, cache, audience, response, t) ==
    [res |-> Inner_get_id_token_with_access_token(p, audience, response, t),
     cache |-> cache]

CachedTokenProvider_parse_id_token_response(p, is_poisoned, cache, hash, response) ==
    LET token == Inner_parse_id_token_response(p, hash, response)
    IN  IF ~token.ok THEN [res |-> token, cache |-> cache]
        ELSE LET inserted == TokenCache_try_insert(is_poisoned, cache, token.value, hash)
             IN  IF ~inserted.ok THEN [res |-> inserted, cache |-> cache]
                 ELSE [res |-> token, cache |-> inserted.value]

----------------------------------------------------------------------------
(* The responses a caller may bring back from the network.                 *)

TokenBody(access_token, expires_in) ==
    JsonBody([access_token |-> access_token, token_type |-> "Bearer",
              expires_in |-> expires_in])

ErrorBody == JsonBody([error |-> "invalid_grant", error_description |-> "bad jwt"])

TokenResponses ==
    { Response(200, Some(JSON_CT), TokenBody(tk[1], tk[2])) :
        tk \in { <<"t1", 1>>, <<"t2", 2>>, <<"t1", 0>>, <<"t2", -1>>, <<"", 1>> } }
    \cup { Response(200, Some(JSON_CT), RawBody(<<Seg("garbage", FALSE, None)>>)),
           Response(400, Some(JSON_CT), ErrorBody),
           Response(400, None, ErrorBody),
           Response(400, Some("application/json"), ErrorBody),
           Response(400, Some(JSON_CT), RawBody(<<Seg("garbage", FALSE, None)>>)),
           Response(401, Some(JSON_CT), TokenBody("t1", 1)) }

\* The exp of c3 is a u64 past the last second a SystemTime can hold; the
\* last two strings have one segment and two segments.
Jwts == { Jwt("c1", 1), Jwt("c2", 2), Jwt("c3", SystemTimeMax + 1),
          <<Seg("hdr", TRUE, None)>>,
          <<Seg("hdr", TRUE, None), Seg("c1", TRUE, Some(2))>> }

IdTokenResponses ==
    { Response(200, Some(JSON_CT), JsonBody([token |-> j])) : j \in Jwts }
    \cup { Response(200, Some(JSON_CT),
                    JsonBody([access_token |-> "t1", token_type |-> "Bearer",
                              expires_in |-> 1, id_token |-> j])) : j \in Jwts }
    \cup { Response(200, None, RawBody(j)) : j \in Jwts }
    \cup { Response(400, Some(JSON_CT), ErrorBody) }

----------------------------------------------------------------------------
(* The state machine.                                                      *)

Callers == 1..NCallers

\* The caller of a call that no thread of the race is tracked for.
Anyone == NCallers + 1

Idle == [pc |-> "idle", hash |-> 0, inflight |-> 0]

NoCall == [op |-> "none", caller |-> Anyone, subject |-> None, key |-> None,
           response |-> None, res |-> Ok(None), inner_called |-> FALSE]

Call(op, c, subject, key, response, res, inner_called) ==
    [op |-> op, caller |-> c, subject |-> subject, key |-> key,
     response |-> response, res |-> res, inner_called |-> inner_called]

\* What thread c holds after a call, left alone for an untracked caller.
Track(c, held) == IF c \in Callers THEN [callers EXCEPT ![c] = held] ELSE callers

Init ==
    /\ inner \in Kinds
    /\ now = 0
    /\ access_tokens = << >>
    /\ id_tokens = << >>
    /\ poisoned = {}
    /\ callers = [c \in Callers |-> Idle]
    /\ last = NoCall
    /\ returned_tokens = [h \in Hashes |-> None]
    /\ returned_id_tokens = [h \in Hashes |-> None]

\* get_token_with_subject(subject, scopes); get_token(scopes) is the call
\* with no subject.
GetTokenWithSubject(c, subject, scopes) ==
    LET r == CachedTokenProvider_get_token_with_subject(
                 inner, "access_tokens" \in poisoned, access_tokens, subject, scopes, now)
        h == hash_scopes(scopes)
    IN  /\ last' = Call("get_token_with_subject", c, subject, Some(scopes), None,
                        r.res, r.inner_called)
        /\ callers' = Track(c,
              IF ~r.res.ok THEN Idle
              ELSE IF r.res.value.type = "Token"
                   THEN [pc |-> "done", hash |-> h, inflight |-> 0]
                   ELSE [pc |-> "awaiting", hash |-> r.res.value.scope_hash,
                         inflight |-> 1 + Cardinality({d \in Callers \ {c} :
                                         /\ callers[d].pc = "awaiting"
                                         /\ callers[d].hash = r.res.value.scope_hash})])
        /\ access_tokens' = r.cache
        /\ UNCHANGED <<inner, now, id_tokens, poisoned,
                       returned_tokens, returned_id_tokens>>

\* parse_token_response(hash, response)
ParseTokenResponse(c, hash, response) ==
    LET r == CachedTokenProvider_parse_token_response(
                 inner, "access_tokens" \in poisoned, access_tokens, hash, response, now)
    IN  /\ access_tokens' = r.cache
        /\ last' = Call("parse_token_response", c, None, Some(hash), Some(response),
                        r.res, TRUE)
        /\ callers' = Track(c,
              IF ~r.res.ok THEN Idle
              ELSE [pc |-> "parsed", hash |-> hash,
                    inflight |-> IF c \in Callers THEN callers[c].inflight ELSE 0])
        /\ returned_tokens' = IF r.res.ok
                              THEN [returned_tokens EXCEPT ![hash] = Some(r.res.value)]
                              ELSE returned_tokens
        /\ UNCHANGED <<inner, now, id_tokens, poisoned, returned_id_tokens>>

\* get_id_token(audience)
GetIdToken(audience) ==
    LET r == CachedTokenProvider_get_id_token(
                 inner, "id_tokens" \in poisoned, id_tokens, audience, now)
    IN  /\ last' = Call("get_id_token", Anyone, None, Some(audience), None,
                        r.res, r.inner_called)
        /\ id_tokens' = r.cache
        /\ UNCHANGED <<inner, now, access_tokens, poisoned, callers,
                       returned_tokens, returned_id_tokens>>

\* get_id_token_with_access_token(audience, response)
GetIdTokenWithAccessToken(audience, response) ==
    LET r == CachedTokenProvider_get_id_token_with_access_token(
                 inner, access_tokens, audience, response, now)
    IN  /\ last' = Call("get_id_token_with_access_token", Anyone, None,
                        Some(audience), Some(response), r.res, TRUE)
        /\ access_tokens' = r.cache
        /\ UNCHANGED <<inner, now, id_tokens, poisoned, callers,
                       returned_tokens, returned_id_tokens>>

\* parse_id_token_response(hash, response)
ParseIdTokenResponse(hash, response) ==
    LET r == CachedTokenProvider_parse_id_token_response(
                 inner, "id_tokens" \in poisoned, id_tokens, hash, response)
    IN  /\ id_tokens' = r.cache
        /\ last' = Call("parse_id_token_response", Anyone, None, Some(hash),
                        Some(response), r.res, TRUE)
        /\ returned_id_tokens' = IF r.res.ok
                                 THEN [returned_id_tokens EXCEPT ![hash] = Some(r.res.value)]
                                 ELSE returned_id_tokens
        /\ UNCHANGED <<inner, now, access_tokens, poisoned, callers, returned_tokens>>

\* A second of wall-clock time passes between two calls.
Tick ==
    /\ now < MaxTime
    /\ now' = now + 1
    /\ last' = NoCall
    /\ UNCHANGED <<inner, access_tokens, id_tokens, poisoned, callers,
                   returned_tokens, returned_id_tokens>>

\* The hashes of the scope lists and of the audiences.
ScopeHashes == { hash_scopes(scopes) : scopes \in ScopeLists }
AudienceHashes == { hash_str(audience) : audience \in Audiences }

\* The whole provider, both caches, over one scope list, one audience (which
\* hash alike) and the responses that differ in expiry.
OneScopeList == { <<"a", "b">> }
OneAudience == { "a|b" }
FewTokenResponses ==
    { Response(200, Some(JSON_CT), TokenBody(tk[1], tk[2])) :
        tk \in { <<"t1", 1>>, <<"t1", 0>>, <<"", 1>> } }
    \cup { Response(400, Some(JSON_CT), ErrorBody) }
FewIdTokenResponses ==
    { Response(200, Some(JSON_CT), JsonBody([token |-> Jwt("c1", 1)])),
      Response(200, Some(JSON_CT),
               JsonBody([access_token |-> "t1", token_type |-> "Bearer",
                         expires_in |-> 1, id_token |-> Jwt("c1", 1)])),
      Response(200, None, RawBody(Jwt("c1", 1))),
      Response(400, Some(JSON_CT), ErrorBody) }

Next ==
    \/ \E subject \in Subjects, scopes \in OneScopeList :
           GetTokenWithSubject(Anyone, subject, scopes)
    \/ \E hash \in { hash_scopes(scopes) : scopes \in OneScopeList },
          response \in FewTokenResponses :
           ParseTokenResponse(Anyone, hash, response)
    \/ \E audience \in OneAudience : GetIdToken(audience)
    \/ \E audience \in OneAudience, response \in FewTokenResponses :
           GetIdTokenWithAccessToken(audience, response)
    \/ \E hash \in { hash_str(audience) : audience \in OneAudience },
          response \in FewIdTokenResponses :
           ParseIdTokenResponse(hash, response)
    \/ Tick

Spec == Init /\ [][Next]_vars

\* The access-token path alone (impl TokenProvider), over every scope list
\* and token response.
NextToken ==
    \/ \E subject \in Subjects, scopes \in ScopeLists :
           GetTokenWithSubject(Anyone, subject, scopes)
    \/ \E hash \in ScopeHashes, response \in TokenResponses :
           ParseTokenResponse(Anyone, hash, response)
    \/ Tick

SpecToken == Init /\ [][NextToken]_vars

\* The ID-token path alone (impl IdTokenProvider), over every audience and
\* response.
NextId ==
    \/ \E audience \in Audiences : GetIdToken(audience)
    \/ \E audience \in Audiences,
          response \in TokenResponses \cup
                       { Response(200, Some(JSON_CT), TokenBody(text, 1)) :
                           text \in InvalidHeaderTexts } :
           GetIdTokenWithAccessToken(audience, response)
    \/ \E hash \in AudienceHashes, response \in IdTokenResponses :
           ParseIdTokenResponse(hash, response)
    \/ Tick

SpecId == Init /\ [][NextId]_vars

\* NCallers threads racing on the access-token path: a thread asks for a
\* token when it holds no request, and brings the response of the request
\* it holds back under that request's scope_hash.
RaceScopeLists == { <<"a", "b">>, <<"a|b">> }
RaceTokenResponses ==
    { Response(200, Some(JSON_CT), TokenBody("t1", 1)),
      Response(200, Some(JSON_CT), TokenBody("t2", 2)),
      Response(400, Some(JSON_CT), ErrorBody) }

NextRace ==
    \/ \E c \in Callers, scopes \in RaceScopeLists :
           /\ callers[c].pc # "awaiting"
           /\ GetTokenWithSubject(c, None, scopes)
    \/ \E c \in Callers, response \in RaceTokenResponses :
           /\ callers[c].pc = "awaiting"
           /\ ParseTokenResponse(c, callers[c].hash, response)
    \/ Tick

SpecRace == Init /\ [][NextRace]_vars

\* The access-token path with responses parsed under any hash the caller
\* cares to supply, so that the cache grows to Len(HashTable) entries.
NextCache ==
    \/ \E scopes \in ScopeLists : GetTokenWithSubject(Anyone, None, scopes)
    \/ \E hash \in Hashes, response \in RaceTokenResponses :
           ParseTokenResponse(Anyone, hash, response)
    \/ Tick

SpecCache == Init /\ [][NextCache]_vars

\* Both parsers with responses that fail in each way: a non-2xx status, a
\* body that does not decode and, for ID tokens, a token without a dot.
FailingTokenResponses ==
    { Response(200, Some(JSON_CT), TokenBody("t1", 2)),
      Response(400, Some(JSON_CT), ErrorBody),
      Response(500, None, RawBody(<<Seg("garbage", FALSE, None)>>)),
      Response(200, Some(JSON_CT), RawBody(<<Seg("garbage", FALSE, None)>>)) }
FailingIdTokenResponses ==
    { Response(200, Some(JSON_CT), JsonBody([token |-> Jwt("c1", 2)])),
      Response(200, Some(JSON_CT), JsonBody([id_token |-> Jwt("c1", 2)])),
      Response(200, None, RawBody(Jwt("c1", 2))),
      Response(400, Some(JSON_CT), ErrorBody),
      Response(200, Some(JSON_CT), JsonBody([token |-> <<Seg("hdr", TRUE, None)>>])),
      Response(200, Some(JSON_CT), JsonBody([token |-> <<Seg("hdr", TRUE, None),
                                                Seg("!?", FALSE, None),
                                                Seg("sig", TRUE, None)>>])),
      Response(200, None, RawBody(<<Seg("garbage", FALSE, None)>>)) }

NextFail ==
    \/ \E scopes \in OneScopeList : GetTokenWithSubject(Anyone, None, scopes)
    \/ \E hash \in { hash_scopes(scopes) : scopes \in OneScopeList },
          response \in FailingTokenResponses :
           ParseTokenResponse(Anyone, hash, response)
    \/ \E audience \in OneAudience : GetIdToken(audience)
    \/ \E hash \in { hash_str(audience) : audience \in OneAudience },
          response \in FailingIdTokenResponses :
           ParseIdTokenResponse(hash, response)
    \/ Tick

SpecFail == Init /\ [][NextFail]_vars

\* The callers of examples/svc_account.rs and svc_account_id_token.rs:
\* each asks for a token, executes every request handed to it, hands the
\* response to the provider's next method, and asks again.  A caller is at
\* pc, in the flow ("access" or "id") for key, has made rounds round trips
\* since it last asked, and reached "done" at time at.
FlowIdle == [pc |-> "idle", flow |-> "none", key |-> None, hash |-> 0,
             rounds |-> 0, at |-> 0]

\* The examples run their flow on one thread.
FlowCallers == {1}

InitFlow ==
    /\ inner \in Kinds
    /\ now = 0
    /\ access_tokens = << >>
    /\ id_tokens = << >>
    /\ poisoned = {}
    /\ callers = [c \in Callers |-> FlowIdle]
    /\ last = NoCall
    /\ returned_tokens = [h \in Hashes |-> None]
    /\ returned_id_tokens = [h \in Hashes |-> None]

\* What execute_request gives back: 2xx, well formed for the endpoint that
\* was asked, with a token that has not expired at time t.
FreshTokenResponses ==
    { Response(200, Some(JSON_CT), TokenBody("t1", 1)),
      Response(200, Some(JSON_CT), TokenBody("t2", 2)) }
FreshIdTokenResponses(p, t) ==
    { IF p = "ServiceAccount"
      THEN Response(200, Some(JSON_CT), JsonBody([token |-> Jwt("c1", exp)]))
      ELSE IF p = "EndUser"
      THEN Response(200, Some(JSON_CT),
                    JsonBody([access_token |-> "t1", token_type |-> "Bearer",
                              expires_in |-> 1, id_token |-> Jwt("c1", exp)]))
      ELSE Response(200, None, RawBody(Jwt("c1", exp))) : exp \in {t + 1, t + 2} }

\* The caller may ask when it holds no request: at the start, or again for
\* the same parameters once it is done.
MayAsk(c, flow, key) ==
    \/ callers[c].pc = "idle"
    \/ callers[c].pc = "done" /\ callers[c].flow = flow /\ callers[c].key = Some(key)

\* match provider.get_token(scopes) { Token | Request }
FlowGetToken(c, scopes) ==
    LET r == CachedTokenProvider_get_token_with_subject(
                 inner, "access_tokens" \in poisoned, access_tokens, None, scopes, now)
        held == [callers[c] EXCEPT !.flow = "access", !.key = Some(scopes)]
    IN  /\ MayAsk(c, "access", scopes)
        /\ last' = Call("get_token_with_subject", c, None, Some(scopes), None,
                        r.res, r.inner_called)
        /\ callers' = [callers EXCEPT ![c] =
              IF ~r.res.ok THEN [held EXCEPT !.pc = "failed"]
              ELSE IF r.res.value.type = "Token"
              THEN [held EXCEPT !.pc = "done", !.at = now,
                                !.rounds = IF callers[c].pc = "done" THEN @ ELSE 0]
              ELSE [held EXCEPT !.pc = "awaiting", !.rounds = 0,
                                !.hash = r.res.value.scope_hash]]
        /\ access_tokens' = r.cache
        /\ UNCHANGED <<inner, now, id_tokens, poisoned,
                       returned_tokens, returned_id_tokens>>

\* provider.parse_token_response(scope_hash, execute_request(request))
FlowParseTokenResponse(c, response) ==
    LET hash == callers[c].hash
        r == CachedTokenProvider_parse_token_response(
                 inner, "access_tokens" \in poisoned, access_tokens, hash, response, now)
    IN  /\ callers[c].pc = "awaiting"
        /\ access_tokens' = r.cache
        /\ last' = Call("parse_token_response", c, None, Some(hash), Some(response),
                        r.res, TRUE)
        /\ callers' = [callers EXCEPT ![c] =
              IF ~r.res.ok THEN [@ EXCEPT !.pc = "failed"]
              ELSE [@ EXCEPT !.pc = "done", !.rounds = @ + 1, !.at = now]]
        /\ returned_tokens' = IF r.res.ok
                              THEN [returned_tokens EXCEPT ![hash] = Some(r.res.value)]
                              ELSE returned_tokens
        /\ UNCHANGED <<inner, now, id_tokens, poisoned, returned_id_tokens>>

\* match provider.get_id_token(audience)
\*     { IdToken | AccessTokenRequest | IdTokenRequest }
FlowGetIdToken(c, audience) ==
    LET r == CachedTokenProvider_get_id_token(
                 inner, "id_tokens" \in poisoned, id_tokens, audience, now)
        held == [callers[c] EXCEPT !.flow = "id", !.key = Some(audience)]
    IN  /\ MayAsk(c, "id", audience)
        /\ last' = Call("get_id_token", c, None, Some(audience), None,
                        r.res, r.inner_called)
        /\ callers' = [callers EXCEPT ![c] =
              IF ~r.res.ok THEN [held EXCEPT !.pc = "failed"]
              ELSE IF r.res.value.type = "IdToken"
              THEN [held EXCEPT !.pc = "done", !.at = now,
                                !.rounds = IF callers[c].pc = "done" THEN @ ELSE 0]
              ELSE [held EXCEPT !.pc = IF r.res.value.type = "AccessTokenRequest"
                                       THEN "awaiting_access" ELSE "awaiting_id",
                                !.rounds = 0,
                                !.hash = r.res.value.audience_hash]]
        /\ id_tokens' = r.cache
        /\ UNCHANGED <<inner, now, access_tokens, poisoned,
                       returned_tokens, returned_id_tokens>>

\* provider.get_id_token_with_access_token(audience, execute_request(request))
FlowGetIdTokenWithAccessToken(c, response) ==
    LET audience == unwrap(callers[c].key)
        r == CachedTokenProvider_get_id_token_with_access_token(
                 inner, access_tokens, audience, response, now)
    IN  /\ callers[c].pc = "awaiting_access"
        /\ last' = Call("get_id_token_with_access_token", c, None,
                        Some(audience), Some(response), r.res, TRUE)
        /\ callers' = [callers EXCEPT ![c] =
              IF ~r.res.ok THEN [@ EXCEPT !.pc = "failed"]
              ELSE [@ EXCEPT !.pc = "awaiting_id", !.rounds = @ + 1]]
        /\ access_tokens' = r.cache
        /\ UNCHANGED <<inner, now, id_tokens, poisoned,
                       returned_tokens, returned_id_tokens>>

\* provider.parse_id_token_response(audience_hash, execute_request(request))
FlowParseIdTokenResponse(c, response) ==
    LET hash == callers[c].hash
        r == CachedTokenProvider_parse_id_token_response(
                 inner, "id_tokens" \in poisoned, id_tokens, hash, response)
    IN  /\ callers[c].pc = "awaiting_id"
        /\ id_tokens' = r.cache
        /\ last' = Call("parse_id_token_response", c, None, Some(hash),
                        Some(response), r.res, TRUE)
        /\ callers' = [callers EXCEPT ![c] =
              IF ~r.res.ok THEN [@ EXCEPT !.pc = "failed"]
              ELSE [@ EXCEPT !.pc = "done", !.rounds = @ + 1, !.at = now]]
        /\ returned_id_tokens' = IF r.res.ok
                                 THEN [returned_id_tokens EXCEPT ![hash] = Some(r.res.value)]
                                 ELSE returned_id_tokens
        /\ UNCHANGED <<inner, now, access_tokens, poisoned, returned_tokens>>

\* The next statement of caller c.
FlowStep(c) ==
    \/ \E scopes \in OneScopeList : FlowGetToken(c, scopes)
    \/ \E response \in FreshTokenResponses : FlowParseTokenResponse(c, response)
    \/ \E audience \in OneAudience : FlowGetIdToken(c, audience)
    \/ \E response \in FreshTokenResponses : FlowGetIdTokenWithAccessToken(c, response)
    \/ \E response \in FreshIdTokenResponses(inner, now) :
           FlowParseIdTokenResponse(c, response)

NextFlow ==
    \/ \E c \in FlowCallers : FlowStep(c)
    \/ Tick

\* Every caller goes on to its next statement; the clock is under no
\* obligation to advance.
SpecFlow == InitFlow /\ [][NextFlow]_vars /\ \A c \in FlowCallers : WF_vars(FlowStep(c))

\* TokenCache::get and TokenCache::insert statement by statement, on
\* threads that share one TokenCache<Token>.  The RwLock is held by the
\* threads that are between taking a guard and dropping it.
Readers(held) == { c \in DOMAIN held : held[c].pc \in {"get_locked", "get_found",
                                                        "get_clone", "get_release"} }
Writers(held) == { c \in DOMAIN held : held[c].pc \in {"insert_locked", "insert_release"} }

\* Variant of RwLock::read that is granted while a writer holds the lock.
RwLock_read_unguarded(held) == TRUE

\* RwLock::read is granted when no thread holds the write guard.
RwLock_read(held) == Writers(held) = {}

\* RwLock::write is granted when no thread holds any guard.
RwLock_write(held) == Readers(held) = {} /\ Writers(held) = {}

\* A thread outside get and insert.  hash and token are the arguments of
\* the call in progress, idx the index the search gave, at the time of the
\* expiry test, before the cache when get was called, inserted the tokens
\* stored under hash since then, seen the caches there have been since the
\* read guard was taken, result what get returned to the thread.
LockIdle == [pc |-> "idle", hash |-> 0, idx |-> 0, token |-> None, at |-> 0,
             before |-> << >>, inserted |-> {}, seen |-> {}, result |-> None]

InitLock ==
    /\ inner = "none"
    /\ now = 0
    /\ access_tokens = << >>
    /\ id_tokens = << >>
    /\ poisoned = {}
    /\ callers = [c \in Callers |-> LockIdle]
    /\ last = NoCall
    /\ returned_tokens = [h \in Hashes |-> None]
    /\ returned_id_tokens = [h \in Hashes |-> None]

\* Thread 1 inserts the tokens it parsed when the process started, one of
\* them expired from the start; the other threads look tokens up.
LockHashes == {1, 2}
LockTokens ==
    { Token_from([access_token |-> tk[1], token_type |-> "Bearer", expires_in |-> tk[2]], 0) :
        tk \in { <<"t1", 1>>, <<"t2", 0>> } }
Inserters == {1}
Getters == Callers \ Inserters

\* self.access_tokens.get(hash) is called.
LockGetCall(c, hash) ==
    /\ callers[c].pc = "idle"
    /\ callers' = [callers EXCEPT ![c] =
          [LockIdle EXCEPT !.pc = "get_called", !.hash = hash, !.before = access_tokens]]
    /\ UNCHANGED <<inner, now, access_tokens, id_tokens, poisoned, last,
                   returned_tokens, returned_id_tokens>>

\* let cache = self.cache.read()
LockGetRead(c) ==
    /\ callers[c].pc = "get_called"
    /\ RwLock_read(callers)
    /\ callers' = [callers EXCEPT ![c].pc = "get_locked", ![c].seen = {access_tokens}]
    /\ UNCHANGED <<inner, now, access_tokens, id_tokens, poisoned, last,
                   returned_tokens, returned_id_tokens>>

\* match cache.binary_search_by(|i| i.hash.cmp(&hash))
LockGetSearch(c) ==
    LET r == binary_search_by(access_tokens, callers[c].hash)
    IN  /\ callers[c].pc = "get_locked"
        /\ callers' = [callers EXCEPT ![c] =
              IF r.found
              THEN [@ EXCEPT !.pc = "get_found", !.idx = r.idx]
              ELSE [@ EXCEPT !.pc = "get_release", !.at = now,
                             !.result = Some([type |-> "RequestReason", token |-> None,
                                              reason |-> Some("ParametersChanged")])]]
        /\ UNCHANGED <<inner, now, access_tokens, id_tokens, poisoned, last,
                       returned_tokens, returned_id_tokens>>

\* let token = &cache[i].token; if !token.has_expired()
LockGetExpired(c) ==
    /\ callers[c].pc = "get_found"
    /\ callers' = [callers EXCEPT ![c] =
          IF ~has_expired(access_tokens[callers[c].idx].token, now)
          THEN [@ EXCEPT !.pc = "get_clone", !.at = now]
          ELSE [@ EXCEPT !.pc = "get_release", !.at = now,
                         !.result = Some([type |-> "RequestReason", token |-> None,
                                          reason |-> Some("Expired")])]]
    /\ UNCHANGED <<inner, now, access_tokens, id_tokens, poisoned, last,
                   returned_tokens, returned_id_tokens>>

\* return Ok(TokenOrRequestReason::Token(token.clone()))
LockGetClone(c) ==
    /\ callers[c].pc = "get_clone"
    /\ callers' = [callers EXCEPT ![c].pc = "get_release",
                                  ![c].result = Some([type |-> "Token",
                                       token |-> access_tokens[callers[c].idx].token,
                                       reason |-> None])]
    /\ UNCHANGED <<inner, now, access_tokens, id_tokens, poisoned, last,
                   returned_tokens, returned_id_tokens>>

\* The read guard is dropped and get returns.
LockGetReturn(c) ==
    /\ callers[c].pc = "get_release"
    /\ callers' = [callers EXCEPT ![c] =
          [LockIdle EXCEPT !.hash = callers[c].hash, !.result = callers[c].result]]
    /\ UNCHANGED <<inner, now, access_tokens, id_tokens, poisoned, last,
                   returned_tokens, returned_id_tokens>>

\* self.access_tokens.insert(token, hash): let mut cache = self.cache.write()
LockInsertWrite(c, token, hash) ==
    /\ callers[c].pc = "idle"
    /\ RwLock_write(callers)
    /\ callers' = [callers EXCEPT ![c] =
          [LockIdle EXCEPT !.pc = "insert_locked", !.hash = hash, !.token = Some(token)]]
    /\ UNCHANGED <<inner, now, access_tokens, id_tokens, poisoned, last,
                   returned_tokens, returned_id_tokens>>

\* match cache.binary_search_by(..) { Ok(i) => cache[i].token = token,
\*                                    Err(i) => cache.insert(i, Entry { .. }) }
\* Every thread inside get sees the vector that results.
LockInsertStore(c) ==
    LET stored == TokenCache_insert(access_tokens, unwrap(callers[c].token), callers[c].hash)
    IN  /\ callers[c].pc = "insert_locked"
        /\ access_tokens' = stored
        /\ callers' = [d \in Callers |->
              IF d = c THEN [callers[c] EXCEPT !.pc = "insert_release"]
              ELSE IF callers[d].pc = "idle" THEN callers[d]
              ELSE [callers[d] EXCEPT
                      !.seen = IF d \in Readers(callers) THEN @ \cup {stored} ELSE @,
                      !.inserted = IF callers[d].hash = callers[c].hash
                                   THEN @ \cup {unwrap(callers[c].token)} ELSE @]]
        /\ UNCHANGED <<inner, now, id_tokens, poisoned, last,
                       returned_tokens, returned_id_tokens>>

\* The write guard is dropped and insert returns.
LockInsertReturn(c) ==
    /\ callers[c].pc = "insert_release"
    /\ callers' = [callers EXCEPT ![c] = LockIdle]
    /\ UNCHANGED <<inner, now, access_tokens, id_tokens, poisoned, last,
                   returned_tokens, returned_id_tokens>>

\* The clock advances under the threads.
LockTick ==
    /\ now < MaxTime
    /\ now' = now + 1
    /\ UNCHANGED <<inner, access_tokens, id_tokens, poisoned, callers, last,
                   returned_tokens, returned_id_tokens>>

NextLock ==
    \/ \E c \in Getters, hash \in LockHashes : LockGetCall(c, hash)
    \/ \E c \in Getters : LockGetRead(c)
    \/ \E c \in Getters : LockGetSearch(c)
    \/ \E c \in Getters : LockGetExpired(c)
    \/ \E c \in Getters : LockGetClone(c)
    \/ \E c \in Getters : LockGetReturn(c)
    \/ \E c \in Inserters, hash \in LockHashes, token \in LockTokens :
           LockInsertWrite(c, token, hash)
    \/ \E c \in Inserters : LockInsertStore(c)
    \/ \E c \in Inserters : LockInsertReturn(c)
    \/ LockTick

SpecLock == InitLock /\ [][NextLock]_vars

\* A caller that asks with or without a subject and, handed a request,
\* executes it at once.  The token endpoint issues the token to the user
\* the assertion of the request names in sub, or to the account itself,
\* for the scope the assertion asks for (the scopes joined by spaces).
SubjectOf(request) ==
    IF "assertion" \in DOMAIN request THEN request.assertion.sub ELSE None
ScopeOf(request) ==
    IF "assertion" \in DOMAIN request THEN request.assertion.scope ELSE "granted"
IssuedTo(subject, scope) ==
    (IF is_some(subject) THEN "token of " \o unwrap(subject) ELSE "token of the account")
    \o " for " \o scope
SubjectResponse(request) ==
    Response(200, Some(JSON_CT),
             TokenBody(IssuedTo(SubjectOf(request), ScopeOf(request)), 1))

NextSubject ==
    \/ \E subject \in Subjects, scopes \in ScopeLists :
           GetTokenWithSubject(Anyone, subject, scopes)
    \/ /\ last.op = "get_token_with_subject"
       /\ last.res.ok
       /\ last.res.value.type = "Request"
       /\ ParseTokenResponse(Anyone, last.res.value.scope_hash,
                             SubjectResponse(last.res.value.request))
    \/ Tick

SpecSubject == Init /\ [][NextSubject]_vars

\* The access-token path with lifetimes at the edges of the integer types:
\* negative, and the greatest an i64 holds.
EdgeTokenResponses ==
    { Response(200, Some(JSON_CT), TokenBody(tk[1], tk[2])) :
        tk \in { <<"t1", 1>>, <<"t2", -1>>, <<"t3", -SystemTimeMax - 1>>,
                 <<"t4", SystemTimeMax>> } }

NextEdge ==
    \/ \E scopes \in OneScopeList : GetTokenWithSubject(Anyone, None, scopes)
    \/ \E hash \in Hashes, response \in EdgeTokenResponses :
           ParseTokenResponse(Anyone, hash, response)
    \/ Tick

SpecEdge == Init /\ [][NextEdge]_vars

\* A thread outside the library's calls panics while it holds the write
\* lock of a cache: the lock is poisoned from then on, the entries stay.
Crash(cache) ==
    /\ cache \notin poisoned
    /\ poisoned' = poisoned \cup {cache}
    /\ last' = NoCall
    /\ UNCHANGED <<inner, now, access_tokens, id_tokens, callers,
                   returned_tokens, returned_id_tokens>>

\* The whole provider, with locks that get poisoned.
NextPoison ==
    \/ Next
    \/ \E cache \in {"access_tokens", "id_tokens"} : Crash(cache)

SpecPoison == Init /\ [][NextPoison]_vars

----------------------------------------------------------------------------
(* Default-credentials discovery: get_default_provider, a function of the  *)
(* process environment and of three files.                                 *)
(*                                                                         *)
(* An environment gives the variables GOOGLE_APPLICATION_CREDENTIALS,      *)
(* CLOUDSDK_CONFIG, APPDATA and HOME (None when unset), the platform, and  *)
(* what reading the service-account key, the gcloud ADC file and           *)
(* /sys/class/dmi/id/product_name yields.  A file's text is a sequence of  *)
(* chunks, each a run of whitespace or a run of other characters; a JSON   *)
(* file is given by its object; a private key is the sequence of the       *)
(* pieces its PEM text has between "-----" marks.                          *)

IoErr(kind) == Err([kind |-> "Io", io |-> kind])

FileJson(obj) == Ok([json |-> TRUE, obj |-> obj, text |-> << >>])
FileText(chunks) == Ok([json |-> FALSE, obj |-> [none |-> 0], text |-> chunks])

CRED_FILE == "application_default_credentials.json"
PRODUCT_NAME_FILE == "/sys/class/dmi/id/product_name"

\* PathBuf::push
push(dir, name) == dir \o "/" \o name

\* Variant of gcloud_config_file that looks under the working directory
\* when the platform names no base directory.
gcloud_config_file_relative(env) ==
    IF is_some(env.CLOUDSDK_CONFIG)
    THEN Some(push(unwrap(env.CLOUDSDK_CONFIG), CRED_FILE))
    ELSE LET base == IF env.windows THEN env.APPDATA
                     ELSE IF is_some(env.HOME)
                          THEN Some(push(unwrap(env.HOME), ".config"))
                          ELSE None
         IN  IF is_some(base) THEN Some(push(push(unwrap(base), "gcloud"), CRED_FILE))
             ELSE Some(push(push(".config", "gcloud"), CRED_FILE))

\* fn gcloud_config_file() -> Option<PathBuf>
gcloud_config_file(env) ==
    IF is_some(env.CLOUDSDK_CONFIG)
    THEN Some(push(unwrap(env.CLOUDSDK_CONFIG), CRED_FILE))
    ELSE LET base == IF env.windows THEN env.APPDATA
                     ELSE IF is_some(env.HOME)
                          THEN Some(push(unwrap(env.HOME), ".config"))
                          ELSE None
         IN  IF is_some(base) THEN Some(push(push(unwrap(base), "gcloud"), CRED_FILE))
             ELSE None

\* std::fs::read_to_string(path) in the environment env
read_to_string(env, path) ==
    IF path = PRODUCT_NAME_FILE THEN env.product_name
    ELSE IF Some(path) = env.GOOGLE_APPLICATION_CREDENTIALS THEN env.key_file
    ELSE IF Some(path) = gcloud_config_file(env) THEN env.adc_file
    ELSE IoErr("NotFound")

Whitespace == { " ", "\n", "\t" }

RECURSIVE trim_start(_)
trim_start(chunks) ==
    IF chunks # << >> /\ Head(chunks) \in Whitespace THEN trim_start(Tail(chunks))
    ELSE chunks

RECURSIVE trim_end(_)
trim_end(chunks) ==
    IF chunks # << >> /\ chunks[Len(chunks)] \in Whitespace
    THEN trim_end(SubSeq(chunks, 1, Len(chunks) - 1))
    ELSE chunks

\* str::trim, as the text that is left
trim(chunks) == join(trim_end(trim_start(chunks)), "")

\* ServiceAccountInfo::deserialize
ServiceAccountInfo_deserialize(data) ==
    IF data.json /\ {"private_key", "client_email", "token_uri"} \subseteq DOMAIN data.obj
    THEN Ok([private_key  |-> data.obj.private_key,
             client_email |-> data.obj.client_email,
             token_uri    |-> data.obj.token_uri])
    ELSE Err([kind |-> "Json"])

\* Variant of ServiceAccountProviderInner::new that takes the piece after
\* the third run of dashes.
ServiceAccountProviderInner_new_after_third(info) ==
    IF Len(info.private_key) < 4 THEN Err([kind |-> "InvalidKeyFormat"])
    ELSE IF ~info.private_key[4].b64 THEN Err([kind |-> "Base64Decode"])
    ELSE Ok([kind |-> "ServiceAccount", info |-> info,
             priv_key |-> info.private_key[4].text])

\* ServiceAccountProviderInner::new: the key is the third piece of the PEM
\* text, decoded as base64 once its whitespace is stripped.
ServiceAccountProviderInner_new(info) ==
    IF Len(info.private_key) < 3 THEN Err([kind |-> "InvalidKeyFormat"])
    ELSE IF ~info.private_key[3].b64 THEN Err([kind |-> "Base64Decode"])
    ELSE Ok([kind |-> "ServiceAccount", info |-> info,
             priv_key |-> info.private_key[3].text])

\* EndUserCredentialsInfo::deserialize
EndUserCredentialsInfo_deserialize(data) ==
    IF data.json
       /\ {"client_id", "client_secret", "refresh_token", "type"} \subseteq DOMAIN data.obj
    THEN Ok([client_id     |-> data.obj.client_id,
             client_secret |-> data.obj.client_secret,
             refresh_token |-> data.obj.refresh_token,
             client_type   |-> data.obj.type])
    ELSE Err([kind |-> "Json"])

\* MetadataServerProviderInner::new(account_name)
MetadataServerProviderInner_new(account_name) ==
    [kind |-> "Metadata",
     account_name |-> IF is_some(account_name) THEN unwrap(account_name) ELSE "default"]

InvalidCredentials(file, error) ==
    Err([kind |-> "InvalidCredentials", file |-> file, error |-> error])

\* A step of the discovery gives Some(result) when it decides the outcome
\* and None when the discovery goes on to the next step.

\* Variant of the first step that skips a key file that is not found.
service_account_step_skips_not_found(env) ==
    IF ~is_some(env.GOOGLE_APPLICATION_CREDENTIALS) THEN None
    ELSE LET cred_path == unwrap(env.GOOGLE_APPLICATION_CREDENTIALS)
             key_data == read_to_string(env, cred_path)
         IN  IF key_data = IoErr("NotFound") THEN None
             ELSE IF ~key_data.ok THEN Some(InvalidCredentials(cred_path, key_data.error))
             ELSE LET sa_info == ServiceAccountInfo_deserialize(key_data.value)
                  IN  IF ~sa_info.ok
                      THEN Some(InvalidCredentials(cred_path, sa_info.error))
                      ELSE LET p == ServiceAccountProviderInner_new(sa_info.value)
                           IN  IF ~p.ok THEN Some(InvalidCredentials(cred_path, p.error))
                               ELSE Some(Ok(Some(p.value)))

\* if let Some(cred_path) = var_os("GOOGLE_APPLICATION_CREDENTIALS") { .. }
service_account_step(env) ==
    IF ~is_some(env.GOOGLE_APPLICATION_CREDENTIALS) THEN None
    ELSE LET cred_path == unwrap(env.GOOGLE_APPLICATION_CREDENTIALS)
             key_data == read_to_string(env, cred_path)
         IN  IF ~key_data.ok THEN Some(InvalidCredentials(cred_path, key_data.error))
             ELSE LET sa_info == ServiceAccountInfo_deserialize(key_data.value)
                  IN  IF ~sa_info.ok
                      THEN Some(InvalidCredentials(cred_path, sa_info.error))
                      ELSE LET p == ServiceAccountProviderInner_new(sa_info.value)
                           IN  IF ~p.ok THEN Some(InvalidCredentials(cred_path, p.error))
                               ELSE Some(Ok(Some(p.value)))

\* Variant of the second step that goes on after any read error.
end_user_step_skips_read_errors(env) ==
    LET gcloud_file == gcloud_config_file(env)
    IN  IF ~is_some(gcloud_file) \/ ~read_to_string(env, unwrap(gcloud_file)).ok
        THEN None
        ELSE LET creds == EndUserCredentialsInfo_deserialize(
                              read_to_string(env, unwrap(gcloud_file)).value)
             IN  IF ~creds.ok THEN Some(InvalidCredentials(unwrap(gcloud_file), creds.error))
                 ELSE Some(Ok(Some([kind |-> "EndUser", info |-> creds.value])))

\* if let Some(gcloud_file) = gcloud_config_file() { .. }
end_user_step(env) ==
    LET gcloud_file == gcloud_config_file(env)
    IN  IF ~is_some(gcloud_file) THEN None
        ELSE LET json_data == read_to_string(env, unwrap(gcloud_file))
             IN  IF json_data.ok
                 THEN LET creds == EndUserCredentialsInfo_deserialize(json_data.value)
                      IN  IF ~creds.ok
                          THEN Some(InvalidCredentials(unwrap(gcloud_file), creds.error))
                          ELSE Some(Ok(Some([kind |-> "EndUser", info |-> creds.value])))
                 ELSE IF json_data.error = [kind |-> "Io", io |-> "NotFound"] THEN None
                 ELSE Some(InvalidCredentials(unwrap(gcloud_file), json_data.error))

\* Variant of the third step that compares the text as read.
metadata_step_untrimmed(env) ==
    LET full_name == read_to_string(env, PRODUCT_NAME_FILE)
    IN  IF full_name.ok
           /\ join(full_name.value.text, "") \in {"Google", "Google Compute Engine"}
        THEN Some(Ok(Some(MetadataServerProviderInner_new(None))))
        ELSE None

\* if let Ok(full_name) = read_to_string("/sys/class/dmi/id/product_name") { .. }
metadata_step(env) ==
    LET full_name == read_to_string(env, PRODUCT_NAME_FILE)
    IN  IF full_name.ok /\ trim(full_name.value.text) \in {"Google", "Google Compute Engine"}
        THEN Some(Ok(Some(MetadataServerProviderInner_new(None))))
        ELSE None

\* TokenProviderWrapperInner::get_default_provider
get_default_provider(env) ==
    IF is_some(service_account_step(env)) THEN unwrap(service_account_step(env))
    ELSE IF is_some(end_user_step(env)) THEN unwrap(end_user_step(env))
    ELSE IF is_some(metadata_step(env)) THEN unwrap(metadata_step(env))
    ELSE Ok(None)

\* The environments the discovery is run in.
Piece(text, b64) == [text |-> text, b64 |-> b64]

GoodKey == << Piece("", TRUE), Piece("BEGIN PRIVATE KEY", FALSE), Piece("MIIEvQ", TRUE),
              Piece("END PRIVATE KEY", FALSE), Piece("", TRUE) >>
UnmarkedKey == << Piece("MIIEvQ", TRUE) >>
UndecodableKey == << Piece("", TRUE), Piece("BEGIN PRIVATE KEY", FALSE), Piece("!?", FALSE),
                     Piece("END PRIVATE KEY", FALSE), Piece("", TRUE) >>

KeyFile(private_key) ==
    FileJson([private_key |-> private_key, client_email |-> "client_email",
              token_uri |-> "token_uri"])

KeyFiles ==
    { KeyFile(GoodKey), KeyFile(UnmarkedKey), KeyFile(UndecodableKey),
      FileJson([private_key |-> GoodKey, client_email |-> "client_email"]),
      FileText(<<"garbage">>),
      IoErr("NotFound"), IoErr("PermissionDenied") }

AdcFiles ==
    { FileJson([client_id |-> "client_id", client_secret |-> "client_secret",
                refresh_token |-> "refresh_token", type |-> "authorized_user"]),
      FileJson([client_id |-> "client_id", client_secret |-> "client_secret",
                type |-> "authorized_user"]),
      FileText(<<"garbage">>),
      IoErr("NotFound"), IoErr("PermissionDenied"), IoErr("InvalidData") }

ProductNames ==
    { FileText(<<"Google">>),
      FileText(<<"Google", "\n">>),
      FileText(<<" ", "Google", " ", "Compute", " ", "Engine", "\n">>),
      FileText(<<"Google", " ", "Cloud">>),
      FileText(<<"google">>),
      FileText(<< >>),
      IoErr("NotFound"), IoErr("PermissionDenied") }

Environments ==
    [ GOOGLE_APPLICATION_CREDENTIALS : { None, Some("/keys/sa.json") },
      CLOUDSDK_CONFIG : { None, Some("/cfg") },
      APPDATA         : { None, Some("C:/Users/u/AppData") },
      HOME            : { None, Some("/home/u") },
      windows         : BOOLEAN,
      key_file        : KeyFiles,
      adc_file        : AdcFiles,
      product_name    : ProductNames ]

\* A process that has not built its provider yet.
InitDiscovery ==
    /\ inner = "none"
    /\ now = 0
    /\ access_tokens = << >>
    /\ id_tokens = << >>
    /\ poisoned = {}
    /\ callers = [c \in Callers |-> Idle]
    /\ last = NoCall
    /\ returned_tokens = [h \in Hashes |-> None]
    /\ returned_id_tokens = [h \in Hashes |-> None]

\* get_default_provider() in the environment env, once per process; the
\* provider it finds is the one the process goes on with.
GetDefaultProvider(env) ==
    LET r == get_default_provider(env)
    IN  /\ inner = "none" /\ last = NoCall
        /\ last' = Call("get_default_provider", Anyone, None, Some(env), None, r, FALSE)
        /\ inner' = IF r.ok /\ is_some(r.value) THEN unwrap(r.value).kind ELSE inner
        /\ UNCHANGED <<now, access_tokens, id_tokens, poisoned, callers,
                       returned_tokens, returned_id_tokens>>

NextDiscovery == \E env \in Environments : GetDefaultProvider(env)

SpecDiscovery == InitDiscovery /\ [][NextDiscovery]_vars

----------------------------------------------------------------------------
(* JWT encoding.  Bytes are numbers 0..255, an encoded text is the         *)
(* sequence of its characters and a JWT the sequence of its dot-separated  *)
(* parts.                                                                  *)

AlphaNumeric ==
    <<
       "A", "B", "C", "D", "E", "F", "G", "H", "I", "J", "K", "L", "M",
       "N", "O", "P", "Q", "R", "S", "T", "U", "V", "W", "X", "Y", "Z",
       "a", "b", "c", "d", "e", "f", "g", "h", "i", "j", "k", "l", "m",
       "n", "o", "p", "q", "r", "s", "t", "u", "v", "w", "x", "y", "z",
       "0", "1", "2", "3", "4", "5", "6", "7", "8", "9" >>

\* The symbols of data_encoding::BASE64URL and of data_encoding::BASE64.
BASE64URL_symbols == AlphaNumeric \o <<"-", "_">>
BASE64_symbols == AlphaNumeric \o <<"+", "/">>

RECURSIVE encode_nopad(_, _)
\* Encoding::encode without padding: three bytes give four symbols, a rest
\* of two bytes three symbols and a rest of one byte two symbols.
encode_nopad(symbols, bytes) ==
    IF Len(bytes) = 0 THEN << >>
    ELSE IF Len(bytes) = 1
    THEN << symbols[(bytes[1] \div 4) + 1], symbols[((bytes[1] % 4) * 16) + 1] >>
    ELSE IF Len(bytes) = 2
    THEN << symbols[(bytes[1] \div 4) + 1],
            symbols[((bytes[1] % 4) * 16 + bytes[2] \div 16) + 1],
            symbols[((bytes[2] % 16) * 4) + 1] >>
    ELSE << symbols[(bytes[1] \div 4) + 1],
            symbols[((bytes[1] % 4) * 16 + bytes[2] \div 16) + 1],
            symbols[((bytes[2] % 16) * 4 + bytes[3] \div 64) + 1],
            symbols[(bytes[3] % 64) + 1] >>
         \o encode_nopad(symbols, SubSeq(bytes, 4, Len(bytes)))

BASE64URL_NOPAD_encode(bytes) == encode_nopad(BASE64URL_symbols, bytes)
BASE64_NOPAD_encode(bytes) == encode_nopad(BASE64_symbols, bytes)

\* to_jwt_part(input), json being the bytes serde_json::to_string gives
to_jwt_part(json) == Ok(BASE64URL_NOPAD_encode(json))

\* sign(signing_input, key, algorithm) for an RSA algorithm: key.signature
\* stands for the bytes the key signs the input with.
sign(signing_input, key) ==
    IF ~key.pkcs8 THEN Err([kind |-> "InvalidRsaKeyRejected"])
    ELSE Ok(BASE64_NOPAD_encode(key.signature))

\* jwt::encode(header, claims, key)
encode(header, claims, key) ==
    LET encoded_header == to_jwt_part(header)
        encoded_claims == to_jwt_part(claims)
        signing_input == << encoded_header.value, encoded_claims.value >>
        signature == sign(signing_input, key)
    IN  IF ~signature.ok THEN signature
        ELSE Ok(signing_input \o << signature.value >>)

\* Headers that start with the alg, the typ and the kid field, cut to their
\* first bytes, and claims with a scope of ">>>" and of "???".
HeaderJsons == { <<123, 34, 97, 108>>, <<123, 34, 116, 121, 112>>,
                 <<123, 34, 107, 105, 100, 34>> }
ClaimsJsons == { <<123, 125>>, <<123, 34, 62, 62, 62, 34, 125>>,
                 <<123, 34, 63, 63, 63, 34, 125>> }
Keys ==
    { [pkcs8 |-> TRUE, signature |-> sig] :
          sig \in { <<0, 16, 131>>, <<251, 255>>, <<255, 239, 190, 1>>, <<12>> } }
    \cup { [pkcs8 |-> FALSE, signature |-> << >>] }

\* jwt::encode(&header, &claims, key)
Encode(header, claims, key) ==
    /\ last' = Call("jwt::encode", Anyone, None,
                    Some([header |-> header, claims |-> claims, key |-> key]),
                    None, encode(header, claims, key), FALSE)
    /\ UNCHANGED <<inner, now, access_tokens, id_tokens, poisoned, callers,
                   returned_tokens, returned_id_tokens>>

NextJwt ==
    \/ \E header \in HeaderJsons, claims \in ClaimsJsons, key \in Keys :
           Encode(header, claims, key)
    \/ Tick

SpecJwt == InitDiscovery /\ [][NextJwt]_vars

\* The service accounts a metadata-server provider is built for and the
\* scope lists it is asked for, the empty list and empty scopes included.
AccountNames == { None, Some("sa@proj") }
MetadataScopeLists ==
    { << >>, <<"a">>, <<"a", "b">>, <<"b", "a">>, <<"">>, <<"a|b">>,
      <<"a", "">>, <<"", "a">> }

\* MetadataServerProviderInner::new(account_name).get_token_with_subject(..)
MetadataGetTokenWithSubject(account_name, subject, scopes) ==
    LET p == MetadataServerProviderInner_new(account_name)
        r == MetadataServerProviderInner_get_token_with_subject(
                 p.account_name, subject, scopes)
    IN  /\ last' = Call("MetadataServerProviderInner::get_token_with_subject", Anyone,
                        subject, Some([account_name |-> p.account_name, scopes |-> scopes]),
                        None, r, TRUE)
        /\ UNCHANGED <<inner, now, access_tokens, id_tokens, poisoned, callers,
                       returned_tokens, returned_id_tokens>>

\* TokenProviderWrapperInner::Metadata(MetadataServerProviderInner::new(None))
\*     .get_token_with_subject(..)
WrapperGetTokenWithSubject(subject, scopes) ==
    LET p == MetadataServerProviderInner_new(None)
        r == Inner_get_token_with_subject(p.kind, subject, scopes, now)
    IN  /\ last' = Call("TokenProviderWrapperInner::get_token_with_subject", Anyone,
                        subject, Some([account_name |-> p.account_name, scopes |-> scopes]),
                        None, r, TRUE)
        /\ UNCHANGED <<inner, now, access_tokens, id_tokens, poisoned, callers,
                       returned_tokens, returned_id_tokens>>

NextMetadata ==
    \/ \E account_name \in AccountNames, subject \in Subjects,
          scopes \in MetadataScopeLists :
           MetadataGetTokenWithSubject(account_name, subject, scopes)
    \/ \E subject \in Subjects, scopes \in MetadataScopeLists :
           WrapperGetTokenWithSubject(subject, scopes)
    \/ Tick

SpecMetadata == InitDiscovery /\ [][NextMetadata]_vars

\* A key whose text ends after the body, with no END line.
UnterminatedKey == << Piece("", TRUE), Piece("BEGIN PRIVATE KEY", FALSE),
                      Piece("MIIEvQ", TRUE) >>
\* A key with a single run of dashes.
OneRunKey == << Piece("BEGIN PRIVATE KEY", FALSE), Piece("MIIEvQ", TRUE) >>
\* A key whose END line holds a decodable word.
WordEndKey == << Piece("", TRUE), Piece("BEGIN PRIVATE KEY", FALSE), Piece("!?", FALSE),
                 Piece("END", TRUE), Piece("", TRUE) >>

ServiceAccountInfos ==
    [ private_key  : { GoodKey, UnmarkedKey, UndecodableKey, UnterminatedKey,
                       OneRunKey, WordEndKey },
      client_email : {"client_email"},
      token_uri    : {"token_uri"} ]

\* ServiceAccountProvider::new(info), once per process; the methods of the
\* provider can be called on the value it returns and on nothing else.
NewServiceAccountProvider(info) ==
    LET r == ServiceAccountProviderInner_new(info)
    IN  /\ inner = "none"
        /\ last' = Call("ServiceAccountProvider::new", Anyone, None, Some(info), None,
                        r, FALSE)
        /\ inner' = IF r.ok THEN r.value.kind ELSE inner
        /\ UNCHANGED <<now, access_tokens, id_tokens, poisoned, callers,
                       returned_tokens, returned_id_tokens>>

NextConstruct ==
    \/ \E info \in ServiceAccountInfos : NewServiceAccountProvider(info)
    \/ /\ inner # "none"
       /\ \E subject \in Subjects, scopes \in OneScopeList :
              GetTokenWithSubject(Anyone, subject, scopes)
    \/ /\ inner # "none"
       /\ \E hash \in { hash_scopes(scopes) : scopes \in OneScopeList },
             response \in FewTokenResponses :
              ParseTokenResponse(Anyone, hash, response)
    \/ /\ inner # "none"
       /\ \E audience \in OneAudience : GetIdToken(audience)
    \/ /\ inner # "none"
       /\ \E hash \in { hash_str(audience) : audience \in OneAudience },
             response \in FewIdTokenResponses :
              ParseIdTokenResponse(hash, response)
    \/ Tick

SpecConstruct == InitDiscovery /\ [][NextConstruct]_vars

----------------------------------------------------------------------------
(* Vocabulary of the properties.  A cache is inspected slot by slot here,  *)
(* never through binary_search_by.                                         *)

\* The slots of cache that hold an entry for hash.
EntriesFor(cache, hash) == { i \in 1..Len(cache) : cache[i].hash = hash }

\* Cache holds an entry for hash that has not expired at time t.
HoldsFresh(cache, hash, t) ==
    \E i \in EntriesFor(cache, hash) : ~has_expired(cache[i].token, t)

\* The most recent call was get_token(scopes), i.e. without a subject.
IsGetToken == last.op = "get_token_with_subject" /\ last.subject = None

IsToken(res) == res.ok /\ res.value.type = "Token"
IsRequest(res) == res.ok /\ res.value.type = "Request"

----------------------------------------------------------------------------
(* Properties of the access-token path.                                    *)

\* C1: whenever the access-token cache holds a non-expired token under
\* hash_scopes(S), get_token(S) returns Token with exactly that token and
\* the inner provider's get_token_with_subject is not invoked.
C1_CacheHitSkipsInner ==
    IsGetToken =>
        \A i \in EntriesFor(access_tokens, hash_scopes(unwrap(last.key))) :
            ~Token_has_expired(access_tokens[i].token, now) =>
                /\ last.res = Ok([type |-> "Token", token |-> access_tokens[i].token])
                /\ ~last.inner_called

\* A get_token answered from the cache a second after the token was parsed.
C1_Witness ==
    /\ IsGetToken
    /\ now >= 1
    /\ HoldsFresh(access_tokens, hash_scopes(unwrap(last.key)), now)
    /\ IsToken(last.res)
    /\ ~last.inner_called

\* C2 (as stated): once parse_token_response(h, r) has returned Ok(t), every
\* later get_token whose scopes hash to h, with no later parse for h in
\* between, returns Token(t), whatever the response r was.
C2_ParsedTokenAlwaysReturned ==
    IsGetToken =>
        LET h == hash_scopes(unwrap(last.key))
        IN  is_some(returned_tokens[h]) =>
                last.res = Ok([type |-> "Token", token |-> unwrap(returned_tokens[h])])

\* C2 (amended): once parse_token_response(h, r) has returned Ok(t), every
\* later get_token whose scopes hash to h, with no later parse for h in
\* between, returns Token(t) without invoking the inner provider as long as
\* t has not expired at the lookup, and a Request with reason Expired once
\* it has (at once, when r carries an empty access_token or an expires_in
\* that is not positive).
C2_ParsedTokenReturnedUntilExpiry ==
    IsGetToken =>
        LET h == hash_scopes(unwrap(last.key))
        IN  is_some(returned_tokens[h]) =>
                LET t == unwrap(returned_tokens[h])
                IN  IF t.access_token # ""
                       /\ is_some(t.expires_in_timestamp)
                       /\ unwrap(t.expires_in_timestamp) > now
                    THEN /\ last.res = Ok([type |-> "Token", token |-> t])
                         /\ ~last.inner_called
                    ELSE /\ IsRequest(last.res)
                         /\ last.res.value.reason = "Expired"
                         /\ last.res.value.scope_hash = h

\* A parsed token handed back by a later get_token for other scopes of the
\* same hash, a second after the parse.
C2_Witness ==
    /\ IsGetToken
    /\ now >= 1
    /\ is_some(returned_tokens[hash_scopes(unwrap(last.key))])
    /\ last.res = Ok([type |-> "Token",
                      token |-> unwrap(returned_tokens[hash_scopes(unwrap(last.key))])])
    /\ last.key = Some(<<"a|b">>)

\* C3: every Token that get_token and every IdToken that get_id_token hands
\* out as a cache hit has not expired at the moment of the lookup, after
\* any sequence of get and parse operations and any passage of time.
C3_NoExpiredTokenHandedOut ==
    /\ (last.op = "get_token_with_subject" /\ IsToken(last.res))
           => ~Token_has_expired(last.res.value.token, now)
    /\ (last.op = "get_id_token" /\ last.res.ok /\ last.res.value.type = "IdToken")
           => ~IdToken_has_expired(last.res.value.token, now)

\* A lookup that finds an expired entry for its hash in each of the two
\* caches: the ID-token lookup comes last and hands out a request.
C3_Witness ==
    /\ last.op = "get_id_token"
    /\ last.res.ok /\ last.res.value.type # "IdToken"
    /\ \E i \in EntriesFor(id_tokens, hash_str(unwrap(last.key))) :
           id_tokens[i].token.token # EmptyString
    /\ \E i \in 1..Len(access_tokens) :
           /\ access_tokens[i].token.access_token # ""
           /\ Token_has_expired(access_tokens[i].token, now)

\* C4: TokenCache.get(hash) is determined by the cache: Token(the stored
\* token) when an entry for hash exists and has not expired, RequestReason
\* Expired when an entry for hash exists but has expired, RequestReason
\* ParametersChanged when no entry for hash exists.
C4_GetThreeOutcomes ==
    \A hash \in Hashes :
        LET got == TokenCache_get(access_tokens, hash, now)
            at == EntriesFor(access_tokens, hash)
        IN  /\ Cardinality(at) <= 1
            /\ at = {} =>
                   got = [type |-> "RequestReason", token |-> None,
                          reason |-> Some("ParametersChanged")]
            /\ \A i \in at :
                   IF Token_has_expired(access_tokens[i].token, now)
                   THEN got = [type |-> "RequestReason", token |-> None,
                               reason |-> Some("Expired")]
                   ELSE got = [type |-> "Token", token |-> access_tokens[i].token,
                               reason |-> None]

\* A cache on which the three outcomes happen at once: one hash is fresh,
\* one has expired and one is absent.
C4_Witness ==
    \E h1, h2, h3 \in Hashes :
        /\ TokenCache_get(access_tokens, h1, now).type = "Token"
        /\ TokenCache_get(access_tokens, h2, now).reason = Some("Expired")
        /\ TokenCache_get(access_tokens, h3, now).reason = Some("ParametersChanged")
        /\ EntriesFor(access_tokens, h3) = {}
        /\ EntriesFor(access_tokens, h2) # {}

\* C5: a Request returned by get_token(scopes) carries scope_hash =
\* hash_scopes(scopes), never the inner provider's 0, and the reason the
\* cache gives: Expired when an expired entry exists for that hash,
\* ParametersChanged when no entry exists; the first get_token on a newly
\* constructed provider returns a Request with reason ParametersChanged,
\* never a Token.
C5_RequestRewrapped ==
    IsGetToken =>
        LET h == hash_scopes(unwrap(last.key))
            at == EntriesFor(access_tokens, h)
        IN  /\ IsRequest(last.res) =>
                /\ last.res.value.scope_hash = h
                /\ last.res.value.scope_hash # 0
                /\ at # {} => /\ last.res.value.reason = "Expired"
                              /\ \A i \in at : Token_has_expired(access_tokens[i].token, now)
                /\ at = {} => last.res.value.reason = "ParametersChanged"
            /\ access_tokens = << >> =>
                /\ IsRequest(last.res)
                /\ last.res.value.reason = "ParametersChanged"

\* get_token finds an expired entry and returns a request for a new token.
C5_Witness ==
    /\ IsGetToken
    /\ IsRequest(last.res)
    /\ last.res.value.reason = "Expired"
    /\ last.res.value.scope_hash = hash_scopes(unwrap(last.key))

\* C6: in-flight requests are not coalesced and the last writer wins per
\* hash: a thread that calls get_token for scopes hashing to h while the
\* cache has no fresh entry for h receives a Request, however many other
\* threads hold a request for h whose response is not parsed yet; and the
\* cache entry for h is the token of the response for h that was parsed
\* successfully last, so also once all NCallers responses are parsed.
C6_NoCoalescingLastWriterWins ==
    /\ (IsGetToken /\ last.caller \in Callers
        /\ ~HoldsFresh(access_tokens, hash_scopes(unwrap(last.key)), now))
           => /\ IsRequest(last.res)
              /\ last.res.value.scope_hash = hash_scopes(unwrap(last.key))
              /\ callers[last.caller].pc = "awaiting"
              /\ callers[last.caller].inflight =
                    Cardinality({ c \in Callers :
                        /\ callers[c].pc = "awaiting"
                        /\ callers[c].hash = last.res.value.scope_hash })
    /\ \A h \in Hashes :
           is_some(returned_tokens[h]) =>
               /\ Cardinality(EntriesFor(access_tokens, h)) = 1
               /\ \A i \in EntriesFor(access_tokens, h) :
                      access_tokens[i].token = unwrap(returned_tokens[h])

\* All NCallers threads were handed a request for the same hash before any
\* of their responses was parsed, every response is parsed by now, and the
\* cache holds the token of the one parsed last, which differs from the
\* token another thread's response carried.
C6_Witness ==
    /\ last.op = "parse_token_response" /\ last.res.ok
    /\ \A c \in Callers : callers[c].pc = "parsed" /\ callers[c].hash = unwrap(last.key)
    /\ \E c \in Callers : callers[c].inflight = NCallers
    /\ \E i \in EntriesFor(access_tokens, unwrap(last.key)) :
           /\ access_tokens[i].token = last.res.value
           /\ access_tokens[i].token.access_token = "t2"

----------------------------------------------------------------------------
(* Properties of the ID-token path.                                        *)

IsIdToken(res) == res.ok /\ res.value.type = "IdToken"

\* C7: on a service account, get_id_token(aud) on a cache miss yields
\* AccessTokenRequest, never IdTokenRequest or IdToken; the request for the
\* ID token is produced only by get_id_token_with_access_token, and only
\* from an access-token response that parses (2xx, a JSON TokenResponse),
\* whose token it carries; and get_id_token hands out an IdToken for aud
\* only after a parse_id_token_response for aud's hash succeeded, namely
\* the token that parse returned.
C7_ServiceAccountIdTokenFlow ==
    inner = "ServiceAccount" =>
        /\ (last.op = "get_id_token"
            /\ ~HoldsFresh(id_tokens, hash_str(unwrap(last.key)), now))
               => last.res.ok /\ last.res.value.type = "AccessTokenRequest"
        /\ (last.op = "get_id_token" /\ last.res.ok)
               => last.res.value.type \in {"AccessTokenRequest", "IdToken"}
        /\ (last.op = "get_id_token_with_access_token" /\ last.res.ok)
               => LET response == unwrap(last.response)
                  IN  /\ is_success(response.status)
                      /\ response.body.json
                      /\ {"access_token", "token_type", "expires_in"}
                             \subseteq DOMAIN response.body.obj
                      /\ last.res.value.authorization =
                             response.body.obj.token_type \o " "
                             \o response.body.obj.access_token
                      /\ last.res.value.body.audience = unwrap(last.key)
        /\ (last.op = "get_id_token" /\ IsIdToken(last.res))
               => /\ is_some(returned_id_tokens[hash_str(unwrap(last.key))])
                  /\ last.res.value.token =
                         unwrap(returned_id_tokens[hash_str(unwrap(last.key))])

\* The third step of the flow on a service account: the access-token
\* response is turned into the request for the ID token.
C7_Witness ==
    /\ inner = "ServiceAccount"
    /\ last.op = "get_id_token_with_access_token"
    /\ last.res.ok
    /\ last.res.value.authorization = "Bearer t1"

\* C8: every request variant get_id_token(aud) returns carries
\* audience_hash = hash_str(aud) and the reason the cache gives (Expired
\* when an expired entry exists, ParametersChanged when none exists); and
\* after parse_id_token_response(hash_str(aud), r) returned Ok(t), a later
\* get_id_token(aud) at which t has not expired returns IdToken(t) without
\* invoking the inner provider.
C8_IdTokenPathMirrorsAccessPath ==
    last.op = "get_id_token" =>
        LET h == hash_str(unwrap(last.key))
            at == EntriesFor(id_tokens, h)
        IN  /\ (last.res.ok /\ last.res.value.type # "IdToken") =>
                /\ last.res.value.type \in {"AccessTokenRequest", "IdTokenRequest"}
                /\ last.res.value.audience_hash = h
                /\ last.res.value.audience_hash # 0
                /\ at # {} => last.res.value.reason = "Expired"
                /\ at = {} => last.res.value.reason = "ParametersChanged"
            /\ is_some(returned_id_tokens[h]) =>
                LET t == unwrap(returned_id_tokens[h])
                IN  (t.token # EmptyString /\ t.expiration > now) =>
                        /\ last.res = Ok([type |-> "IdToken", token |-> t])
                        /\ ~last.inner_called

\* An ID token handed out from the cache a second after it was parsed.
C8_Witness ==
    /\ last.op = "get_id_token"
    /\ now >= 1
    /\ IsIdToken(last.res)
    /\ ~last.inner_called
    /\ is_some(returned_id_tokens[hash_str(unwrap(last.key))])

IsUnsupported(res) ==
    /\ ~res.ok
    /\ res.error.kind = "Auth"
    /\ res.error.error = Some("Unsupported")

\* C9: on a metadata-server or end-user provider, get_id_token on a cache
\* miss yields IdTokenRequest, never AccessTokenRequest, and
\* get_id_token_with_access_token fails with Auth{error: "Unsupported"}
\* for every audience and every response, producing no request and
\* changing no cache.
C9_SingleRoundTrip ==
    /\ [](inner \in {"EndUser", "Metadata"} =>
            /\ (last.op = "get_id_token"
                /\ ~HoldsFresh(id_tokens, hash_str(unwrap(last.key)), now))
                   => last.res.ok /\ last.res.value.type = "IdTokenRequest"
            /\ last.op = "get_id_token_with_access_token"
                   => IsUnsupported(last.res))
    /\ [][(inner \in {"EndUser", "Metadata"}
           /\ last'.op = "get_id_token_with_access_token")
              => UNCHANGED <<access_tokens, id_tokens>>]_vars

\* A metadata-server provider refuses a well-formed access-token response
\* while its ID-token cache holds a token.
C9_Witness ==
    /\ inner = "Metadata"
    /\ last.op = "get_id_token_with_access_token"
    /\ is_success(unwrap(last.response).status)
    /\ parse_TokenResponse(unwrap(last.response).body).ok
    /\ IsUnsupported(last.res)
    /\ id_tokens # << >>

----------------------------------------------------------------------------
(* Subject rejection.                                                      *)

\* C10: get_token_with_subject with a present subject on an end-user or a
\* metadata-server provider returns Err(Auth{error: "Unsupported"}), with
\* the description "ADC / User tokens do not support jwt subjects" on an
\* end-user provider, and neither a Token nor a Request, in every reachable
\* state of the cached provider.
C10_PresentSubjectRejected ==
    (inner \in {"EndUser", "Metadata"}
     /\ last.op = "get_token_with_subject" /\ is_some(last.subject))
        => /\ IsUnsupported(last.res)
           /\ inner = "EndUser" =>
                  last.res.error.error_description =
                      Some("ADC / User tokens do not support jwt subjects")

\* An end-user provider asked with a subject while its cache holds a fresh
\* token for the scopes: the cached token is returned and the inner
\* provider, which would reject the subject, is not reached.
C10_Witness ==
    /\ inner = "EndUser"
    /\ last.op = "get_token_with_subject" /\ is_some(last.subject)
    /\ ~last.inner_called
    /\ IsToken(last.res)

----------------------------------------------------------------------------
(* Error handling of the response parsers.                                 *)

\* The field of a JSON object, None when the object has no such field.
Field(obj, name) == IF name \in DOMAIN obj THEN Some(obj[name]) ELSE None

\* What a parser that surfaces structured errors returns for a non-2xx
\* response, read off the response alone.
StructuredError(response) ==
    IF response.content_type = Some(JSON_CT) /\ response.body.json
    THEN Err([kind |-> "Auth",
              error |-> Field(response.body.obj, "error"),
              error_description |-> Field(response.body.obj, "error_description")])
    ELSE Err([kind |-> "HttpStatus", status |-> response.status])

\* C11: on a service account, parse_token_response on a non-2xx response
\* returns Auth{error, error_description} read from the body when the
\* Content-Type is exactly "application/json; charset=utf-8" and the body
\* parses as an AuthError, HttpStatus(code) in every other non-2xx case,
\* and never Ok.
C11_ServiceAccountAuthOrStatus ==
    (inner = "ServiceAccount" /\ last.op = "parse_token_response"
     /\ ~is_success(unwrap(last.response).status))
        => /\ ~last.res.ok
           /\ last.res = StructuredError(unwrap(last.response))

\* A 400 with the documented content type and an invalid_grant body is
\* surfaced as the structured error.
C11_Witness ==
    /\ inner = "ServiceAccount"
    /\ last.op = "parse_token_response"
    /\ unwrap(last.response).status = 400
    /\ last.res = Err(AuthErr(Some("invalid_grant"), Some("bad jwt")))

\* C12: in every response parser of every provider variant, a structured
\* auth error takes precedence over the raw status: parse_token_response
\* and parse_id_token_response return Auth{...}, not HttpStatus(code),
\* whenever the response is non-2xx, has Content-Type
\* "application/json; charset=utf-8" and a JSON body with error /
\* error_description.
C12_AuthBeforeStatusEverywhere ==
    (/\ last.op \in {"parse_token_response", "parse_id_token_response"}
     /\ ~is_success(unwrap(last.response).status)
     /\ unwrap(last.response).content_type = Some(JSON_CT)
     /\ unwrap(last.response).body.json
     /\ {"error", "error_description"} \subseteq DOMAIN unwrap(last.response).body.obj)
        => last.res = Err(AuthErr(Some(unwrap(last.response).body.obj.error),
                                  Some(unwrap(last.response).body.obj.error_description)))

\* A metadata-server provider reports a structured invalid_grant answer to
\* its ID-token request by the bare status.
C12_Witness ==
    /\ inner = "Metadata"
    /\ last.op = "parse_id_token_response"
    /\ unwrap(last.response) = Response(400, Some(JSON_CT), ErrorBody)
    /\ last.res = Err([kind |-> "HttpStatus", status |-> 400])

----------------------------------------------------------------------------
(* Properties of the default-credentials discovery.                        *)

IsDiscovery == last.op = "get_default_provider"

\* The provider kind a discovery found, "none" for Ok(None), "error" for Err.
Found(res) ==
    IF ~res.ok THEN "error"
    ELSE IF res.value = None THEN "none" ELSE unwrap(res.value).kind

IsInvalidCredentials(res, file) ==
    /\ ~res.ok
    /\ res.error.kind = "InvalidCredentials"
    /\ res.error.file = file

\* A key file that reads, parses as a service-account key and whose private
\* key decodes.
UsableKeyFile(f) ==
    /\ f.ok /\ f.value.json
    /\ {"private_key", "client_email", "token_uri"} \subseteq DOMAIN f.value.obj
    /\ Len(f.value.obj.private_key) >= 3
    /\ f.value.obj.private_key[3].b64

\* C13: whenever GOOGLE_APPLICATION_CREDENTIALS is set, the result is
\* Ok(Some(ServiceAccount provider)) or, for any read, JSON-parse or
\* key-decoding failure, Err(InvalidCredentials{file, error}) naming that
\* file, whatever the gcloud ADC file and product_name hold; the discovery
\* never falls through to the end-user or metadata steps.
C13_ServiceAccountStepShortCircuits ==
    (IsDiscovery /\ is_some(unwrap(last.key).GOOGLE_APPLICATION_CREDENTIALS)) =>
        LET env == unwrap(last.key)
        IN  /\ IF UsableKeyFile(env.key_file)
               THEN Found(last.res) = "ServiceAccount"
               ELSE IsInvalidCredentials(last.res,
                                         unwrap(env.GOOGLE_APPLICATION_CREDENTIALS))
            /\ \A adc \in AdcFiles, name \in ProductNames :
                   get_default_provider([env EXCEPT !.adc_file = adc,
                                                    !.product_name = name]) = last.res

\* The key file named by the variable is not found while a usable ADC file
\* and a Google product name are there: the discovery fails.
C13_Witness ==
    /\ IsDiscovery
    /\ is_some(unwrap(last.key).GOOGLE_APPLICATION_CREDENTIALS)
    /\ unwrap(last.key).key_file = IoErr("NotFound")
    /\ is_some(unwrap(last.key).CLOUDSDK_CONFIG)
    /\ unwrap(last.key).adc_file.ok
    /\ EndUserCredentialsInfo_deserialize(unwrap(last.key).adc_file.value).ok
    /\ unwrap(last.key).product_name = FileText(<<"Google">>)
    /\ last.res = InvalidCredentials("/keys/sa.json", [kind |-> "Io", io |-> "NotFound"])

\* The ADC path of an environment, following the documented policy.
AdcPath(env) ==
    IF env.CLOUDSDK_CONFIG # None
    THEN Some(unwrap(env.CLOUDSDK_CONFIG) \o "/application_default_credentials.json")
    ELSE IF env.windows /\ env.APPDATA # None
    THEN Some(unwrap(env.APPDATA) \o "/gcloud/application_default_credentials.json")
    ELSE IF ~env.windows /\ env.HOME # None
    THEN Some(unwrap(env.HOME) \o "/.config/gcloud/application_default_credentials.json")
    ELSE None

\* C14: with GOOGLE_APPLICATION_CREDENTIALS unset and an ADC path
\* determined, the result is Ok(Some(EndUser provider)) if the ADC file is
\* readable and parses, Err(InvalidCredentials) if reading fails with an
\* error other than NotFound or the JSON is invalid, and the discovery goes
\* on to the metadata-server check only when the read error is NotFound.
C14_AdcStepSwallowsOnlyNotFound ==
    (/\ IsDiscovery
     /\ unwrap(last.key).GOOGLE_APPLICATION_CREDENTIALS = None
     /\ AdcPath(unwrap(last.key)) # None) =>
        LET env == unwrap(last.key)
            f == env.adc_file
        IN  IF f.ok
            THEN IF f.value.json
                    /\ {"client_id", "client_secret", "refresh_token", "type"}
                           \subseteq DOMAIN f.value.obj
                 THEN Found(last.res) = "EndUser"
                 ELSE /\ IsInvalidCredentials(last.res, unwrap(AdcPath(env)))
                      /\ last.res.error.error = [kind |-> "Json"]
            ELSE IF f.error.io = "NotFound"
                 THEN Found(last.res) \in {"Metadata", "none"}
                 ELSE /\ IsInvalidCredentials(last.res, unwrap(AdcPath(env)))
                      /\ last.res.error.error = f.error

\* The ADC file under $HOME cannot be read for lack of permission on a
\* Google machine: the discovery fails instead of using the metadata server.
C14_Witness ==
    /\ IsDiscovery
    /\ unwrap(last.key).GOOGLE_APPLICATION_CREDENTIALS = None
    /\ unwrap(last.key).CLOUDSDK_CONFIG = None
    /\ ~unwrap(last.key).windows
    /\ unwrap(last.key).adc_file = IoErr("PermissionDenied")
    /\ unwrap(last.key).product_name = FileText(<<"Google">>)
    /\ last.res = InvalidCredentials(
                      "/home/u/.config/gcloud/application_default_credentials.json",
                      [kind |-> "Io", io |-> "PermissionDenied"])

\* The text of chunks is whitespace, then one of the two Google product
\* names, then whitespace.
IsGoogleProduct(chunks) ==
    \E i, j \in 1..Len(chunks) :
        /\ i <= j
        /\ \A k \in 1..(i - 1) : chunks[k] \in Whitespace
        /\ \A k \in (j + 1)..Len(chunks) : chunks[k] \in Whitespace
        /\ chunks[i] \notin Whitespace /\ chunks[j] \notin Whitespace
        /\ join(SubSeq(chunks, i, j), "") \in {"Google", "Google Compute Engine"}

\* C15: when neither the service-account step nor the ADC step applies, the
\* result is Ok(Some(Metadata provider with account "default")) if and only
\* if product_name is readable and its whitespace-trimmed content is
\* "Google" or "Google Compute Engine"; for any read error or any other
\* content it is Ok(None), never an error.
C15_MetadataStepOrNone ==
    (/\ IsDiscovery
     /\ unwrap(last.key).GOOGLE_APPLICATION_CREDENTIALS = None
     /\ \/ AdcPath(unwrap(last.key)) = None
        \/ unwrap(last.key).adc_file = IoErr("NotFound")) =>
        LET name == unwrap(last.key).product_name
        IN  IF name.ok /\ IsGoogleProduct(name.value.text)
            THEN last.res = Ok(Some([kind |-> "Metadata", account_name |-> "default"]))
            ELSE last.res = Ok(None)

\* No variable names a credential file and product_name reads
\* " Google Compute Engine\n": the metadata server is used.
C15_Witness ==
    /\ IsDiscovery
    /\ unwrap(last.key).GOOGLE_APPLICATION_CREDENTIALS = None
    /\ AdcPath(unwrap(last.key)) = None
    /\ unwrap(last.key).product_name.ok
    /\ Len(unwrap(last.key).product_name.value.text) = 7
    /\ Found(last.res) = "Metadata"
    /\ inner = "Metadata"

----------------------------------------------------------------------------
(* Poisoned locks.                                                         *)

\* The most recent call had to take the lock of a poisoned cache: a lookup
\* takes the read lock first of all, a parser takes the write lock once the
\* inner provider has parsed the response.
TookPoisonedLock ==
    \/ /\ last.op = "get_token_with_subject"
       /\ "access_tokens" \in poisoned
    \/ /\ last.op = "parse_token_response"
       /\ "access_tokens" \in poisoned
       /\ Inner_parse_token_response(inner, unwrap(last.key),
                                     unwrap(last.response), now).ok
    \/ /\ last.op = "get_id_token"
       /\ "id_tokens" \in poisoned
    \/ /\ last.op = "parse_id_token_response"
       /\ "id_tokens" \in poisoned
       /\ Inner_parse_id_token_response(inner, unwrap(last.key),
                                        unwrap(last.response)).ok

\* C16: when acquiring the lock of a cache fails because a previous holder
\* crashed while holding it, each of get_token, parse_token_response,
\* get_id_token and parse_id_token_response returns Err(Poisoned), the
\* inner provider's get is not reached, and the failing call leaves the
\* content of both caches as it was.
C16_PoisonedLockSurfaced ==
    /\ [](TookPoisonedLock =>
            /\ last.res = [ok |-> FALSE, error |-> [kind |-> "Poisoned"]]
            /\ last.op \in {"get_token_with_subject", "get_id_token"}
                   => ~last.inner_called)
    /\ [][(~last'.res.ok /\ last'.res.error.kind = "Poisoned")
              => UNCHANGED <<access_tokens, id_tokens>>]_vars

\* A well-formed token response is parsed while the lock of the
\* access-token cache, which holds an entry, is poisoned.
C16_Witness ==
    /\ "access_tokens" \in poisoned
    /\ last.op = "parse_token_response"
    /\ is_success(unwrap(last.response).status)
    /\ parse_TokenResponse(unwrap(last.response).body).ok
    /\ ~last.res.ok /\ last.res.error.kind = "Poisoned"
    /\ access_tokens # << >>

----------------------------------------------------------------------------
(* Frame of the request-producing operations.                              *)

\* C17: get_token, get_token_with_subject, get_id_token and
\* get_id_token_with_access_token leave the access-token cache and the
\* ID-token cache unchanged whatever they return (a Token, a Request or an
\* error), so a Request that is never answered leaves the provider as it
\* was before the call.
C17_GetLeavesProviderAlone ==
    [][last'.op \in {"get_token_with_subject", "get_id_token",
                     "get_id_token_with_access_token"}
          => UNCHANGED <<inner, access_tokens, id_tokens, poisoned>>]_vars

\* get_token was handed a Request because the entry for its scopes has
\* expired, and that entry is still in the cache.
C17_Witness ==
    /\ IsGetToken
    /\ IsRequest(last.res)
    /\ last.res.value.reason = "Expired"
    /\ \E i \in EntriesFor(access_tokens, last.res.value.scope_hash) :
           Token_has_expired(access_tokens[i].token, now)

----------------------------------------------------------------------------
(* Expiry of single tokens.  The fields of Token and IdToken are public,   *)
(* so has_expired can be asked of any combination of them.                 *)

ExpiryTokens ==
    [ access_token : {"", "t1", "t2"}, token_type : {"Bearer"},
      refresh_token : {""}, expires_in : {None},
      expires_in_timestamp : {None} \cup { Some(e) : e \in 0..SystemTimeMax } ]
    \cup [ token : {EmptyString, Jwt("c1", 1)}, expiration : 0..SystemTimeMax ]

\* token.has_expired() at the current time
HasExpired(token) ==
    /\ last' = Call("has_expired", Anyone, None, Some(token), None,
                    Ok(has_expired(token, now)), FALSE)
    /\ UNCHANGED <<inner, now, access_tokens, id_tokens, poisoned, callers,
                   returned_tokens, returned_id_tokens>>

NextExpiry ==
    \/ \E token \in ExpiryTokens : HasExpired(token)
    \/ Tick

SpecExpiry == InitDiscovery /\ [][NextExpiry]_vars

\* C18: Token.has_expired() is true when access_token is empty or the
\* recorded expiry is at or before now, and false for a non-empty token
\* whose recorded expiry is strictly after now; IdToken.has_expired() is
\* true exactly when the token string is empty or its expiration is at or
\* before now; a token expiring exactly now counts as expired and no grace
\* is applied in either direction.
C18_ExpiredAtOrBeforeNow ==
    last.op = "has_expired" =>
        LET token == unwrap(last.key)
            expired == last.res.value
        IN  IF "access_token" \in DOMAIN token
            THEN /\ token.access_token = "" => expired
                 /\ is_some(token.expires_in_timestamp) =>
                        /\ unwrap(token.expires_in_timestamp) <= now => expired
                        /\ (token.access_token # ""
                            /\ unwrap(token.expires_in_timestamp) > now) => ~expired
            ELSE expired <=> (token.token = EmptyString \/ token.expiration <= now)

\* A non-empty access token asked exactly at its recorded expiry, some
\* time after the epoch, counts as expired.
C18_Witness ==
    /\ last.op = "has_expired"
    /\ now >= 1
    /\ "access_token" \in DOMAIN unwrap(last.key)
    /\ unwrap(last.key).access_token # ""
    /\ unwrap(last.key).expires_in_timestamp = Some(now)
    /\ last.res = Ok(TRUE)

----------------------------------------------------------------------------
(* Tokens built from responses.                                            *)

\* The most recent call parsed a 2xx response whose body is a JSON object
\* with the fields of a TokenResponse.
ParsedTokenResponse ==
    /\ last.op = "parse_token_response"
    /\ is_success(unwrap(last.response).status)
    /\ unwrap(last.response).body.json
    /\ {"access_token", "token_type", "expires_in"}
           \subseteq DOMAIN unwrap(last.response).body.obj

\* C19: for every 2xx token response with fields access_token, token_type
\* and expires_in = e, the parsed Token carries these, has refresh_token =
\* "" and expires_in = e, and its expires_in_timestamp is the wall-clock
\* time at the parse plus e seconds, for every integer e the response may
\* carry.
C19_TimestampIsParseTimePlusExpiresIn ==
    ParsedTokenResponse =>
        LET tr == unwrap(last.response).body.obj
        IN  /\ last.res.ok
            /\ last.res.value.access_token = tr.access_token
            /\ last.res.value.token_type = tr.token_type
            /\ last.res.value.refresh_token = ""
            /\ last.res.value.expires_in = Some(tr.expires_in)
            /\ last.res.value.expires_in_timestamp = Some(now + tr.expires_in)

\* A response with expires_in = -1 is parsed into a token that has no
\* expires_in_timestamp at all.
C19_Witness ==
    /\ ParsedTokenResponse
    /\ unwrap(last.response).body.obj.expires_in = -1
    /\ last.res.ok
    /\ last.res.value.expires_in = Some(-1)
    /\ last.res.value.expires_in_timestamp = None

----------------------------------------------------------------------------
(* ID tokens built from responses.                                         *)

\* The string the provider hands to IdToken::new: the `token` field on a
\* service account, the `id_token` field on an end user, the whole body on
\* a metadata server.
CarriedToken(p, body) ==
    CASE p = "ServiceAccount" -> body.obj.token
      [] p = "EndUser"        -> body.obj.id_token
      [] p = "Metadata"       -> body_text(body)

\* The most recent call parsed a 2xx response into an IdToken.
ParsedIdToken ==
    /\ last.op = "parse_id_token_response"
    /\ is_success(unwrap(last.response).status)
    /\ last.res.ok

\* C20 (as stated): IdToken::new keeps the token string unchanged and sets
\* expiration to UNIX_EPOCH + exp seconds, exp being read from segment
\* index 1 of the dot-separated token, so that parse_id_token_response on a
\* 2xx response yields an IdToken whose expiration equals the exp claim.
C20_ExpirationEqualsExp ==
    ParsedIdToken =>
        /\ last.res.value.token = CarriedToken(inner, unwrap(last.response).body)
        /\ Len(last.res.value.token) >= 2
        /\ last.res.value.expiration = unwrap(last.res.value.token[2].exp)

\* C20 (amended): IdToken::new keeps the token string unchanged and sets
\* expiration to UNIX_EPOCH + exp seconds, exp being read from segment
\* index 1 of the dot-separated token, when that instant is representable
\* as a SystemTime, and to UNIX_EPOCH itself when the addition overflows;
\* parse_id_token_response on a 2xx response yields that IdToken.
C20_ExpirationEqualsExpOrEpoch ==
    ParsedIdToken =>
        /\ last.res.value.token = CarriedToken(inner, unwrap(last.response).body)
        /\ Len(last.res.value.token) >= 2
        /\ LET exp == unwrap(last.res.value.token[2].exp)
           IN  last.res.value.expiration = IF exp <= SystemTimeMax THEN exp ELSE 0

\* A service account parses two ID tokens: one whose exp is kept as the
\* expiration, and one whose exp overflows and leaves the epoch.
C20_Witness ==
    /\ inner = "ServiceAccount"
    /\ ParsedIdToken
    /\ last.res.value.token = Jwt("c3", SystemTimeMax + 1)
    /\ last.res.value.expiration = 0
    /\ \E i \in 1..Len(id_tokens) :
           /\ id_tokens[i].token.token = Jwt("c2", 2)
           /\ id_tokens[i].token.expiration = 2

\* The response holds a string the provider hands to IdToken::new.
CarriesToken(p, body) ==
    CASE p = "ServiceAccount" -> body.json /\ "token" \in DOMAIN body.obj
      [] p = "EndUser"        -> body.json /\ "id_token" \in DOMAIN body.obj
      [] p = "Metadata"       -> TRUE

\* C21: constructing an IdToken from a string that lacks three
\* dot-separated segments fails with InvalidTokenFormat, and no IdToken is
\* created or cached from such a string.
C21_FewerThanThreeSegmentsRejected ==
    /\ (/\ last.op = "parse_id_token_response"
        /\ is_success(unwrap(last.response).status)
        /\ CarriesToken(inner, unwrap(last.response).body)
        /\ Len(CarriedToken(inner, unwrap(last.response).body)) < 3)
           => last.res = Err([kind |-> "InvalidTokenFormat"])
    /\ \A i \in 1..Len(id_tokens) : Len(id_tokens[i].token.token) >= 3

\* A service account is answered with a token of two segments, header and
\* claims without a signature: the IdToken is created and cached.
C21_Witness ==
    /\ inner = "ServiceAccount"
    /\ last.op = "parse_id_token_response"
    /\ last.res.ok
    /\ Len(last.res.value.token) = 2
    /\ \E i \in EntriesFor(id_tokens, unwrap(last.key)) :
           id_tokens[i].token = last.res.value

----------------------------------------------------------------------------
(* Construction of a service-account provider.                             *)

IsConstruction == last.op = "ServiceAccountProvider::new"

\* A provider exists only after a construction that succeeded, so a
\* credential whose construction failed is never asked for a request.
NoProviderWithoutConstruction ==
    /\ (IsConstruction /\ ~last.res.ok) => inner = "none"
    /\ inner = "none" => last.op \in {"none", "ServiceAccountProvider::new"}

\* C22 (as stated): construction takes the key body as the text between
\* the third and the fourth occurrence of "-----" in private_key and fails
\* with InvalidKeyFormat whenever no body can be located there; a failed
\* construction yields no provider, so no token request is ever built from
\* that credential.
C22_KeyBodyAfterThirdRun ==
    /\ IsConstruction =>
           LET private_key == unwrap(last.key).private_key
           IN  IF Len(private_key) >= 5
               THEN last.res.ok => last.res.value.priv_key = private_key[4].text
               ELSE last.res = Err([kind |-> "InvalidKeyFormat"])
    /\ NoProviderWithoutConstruction

\* C22 (amended): construction takes the key body as the text after the
\* second occurrence of "-----" in private_key, up to the third occurrence
\* or to the end of the text; it fails with InvalidKeyFormat exactly when
\* private_key has fewer than two occurrences, with a base64 error when
\* the body does not decode, and succeeds otherwise; a failed construction
\* yields no provider, so no token request is ever built from that
\* credential.
C22_KeyBodyAfterSecondRun ==
    /\ IsConstruction =>
           LET private_key == unwrap(last.key).private_key
           IN  IF Len(private_key) < 3
               THEN last.res = Err([kind |-> "InvalidKeyFormat"])
               ELSE IF private_key[3].b64
                    THEN /\ last.res.ok
                         /\ last.res.value.priv_key = private_key[3].text
                    ELSE last.res = Err([kind |-> "Base64Decode"])
    /\ NoProviderWithoutConstruction

\* A provider is built from a well-formed PEM key: its key is the body
\* between the BEGIN line and the END line.
C22_Witness ==
    /\ IsConstruction
    /\ unwrap(last.key).private_key = GoodKey
    /\ last.res.ok
    /\ last.res.value.priv_key = "MIIEvQ"
    /\ inner = "ServiceAccount"

----------------------------------------------------------------------------
(* Requests to the metadata server.                                        *)

\* The most recent call asked a metadata-server provider, directly or
\* through the unified wrapper, for a token without a subject.
IsMetadataGetToken ==
    /\ last.op \in {"MetadataServerProviderInner::get_token_with_subject",
                    "TokenProviderWrapperInner::get_token_with_subject"}
    /\ last.subject = None

TokenPath(account_name) ==
    "http://metadata.google.internal"
        \o "/computeMetadata/v1/instance/service-accounts/" \o account_name \o "/token"

----------------------------------------------------------------------------
(* The compact serialization of a JWT.                                     *)

\* The characters of URL-safe base64 without padding.
UrlSafeCharacters ==
    { AlphaNumeric[i] : i \in 1..Len(AlphaNumeric) } \cup {"-", "_"}

\* The length of the unpadded base64 text of n bytes.
NoPadLen(n) == (n \div 3) * 4 + (IF n % 3 = 0 THEN 0 ELSE (n % 3) + 1)

\* C24: jwt encode returns the three-part compact serialization
\* header.claims.signature in which each of the three parts, the signature
\* included, is encoded with URL-safe, no-padding base64.
C24_AllPartsUrlSafeNoPad ==
    (last.op = "jwt::encode" /\ last.res.ok) =>
        LET jwt == last.res.value
            input == unwrap(last.key)
            bytes == << input.header, input.claims, input.key.signature >>
        IN  /\ Len(jwt) = 3
            /\ \A part \in 1..3 :
                   /\ Len(jwt[part]) = NoPadLen(Len(bytes[part]))
                   /\ \A i \in 1..Len(jwt[part]) : jwt[part][i] \in UrlSafeCharacters

\* A JWT whose claims part holds a character of the URL-safe alphabet and
\* whose signature part holds "+" and "/".
C24_Witness ==
    /\ last.op = "jwt::encode" /\ last.res.ok
    /\ Len(last.res.value) = 3
    /\ \E i \in 1..Len(last.res.value[2]) : last.res.value[2][i] \in {"-", "_"}
    /\ unwrap(last.key).key.signature = <<251, 255>>
    /\ last.res.value[3] = <<"+", "/", "8">>

----------------------------------------------------------------------------
(* Order of the scopes.                                                    *)

\* S is a reordering of T: the same scopes at permuted positions.
IsReordering(S, T) ==
    /\ Len(S) = Len(T)
    /\ \E f \in [1..Len(S) -> 1..Len(S)] :
           /\ \A i, j \in 1..Len(S) : f[i] = f[j] => i = j
           /\ \A i \in 1..Len(S) : S[i] = T[f[i]]

----------------------------------------------------------------------------
(* Algebra and frame of TokenCache::insert.                                *)

\* The tokens held in cache.
TokensIn(cache) == { cache[i].token : i \in 1..Len(cache) }

\* C26: TokenCache.insert is idempotent: insert(t, h) performed twice in a
\* row with the identical token t and hash h leaves the cache in exactly
\* the state reached after the first insert: same number of entries, same
\* order, same tokens.  Stated for every token and hash on every reachable
\* cache, and for a parse_token_response repeated with the same response
\* at the same time.
C26_InsertIdempotent ==
    /\ [](\A hash \in Hashes :
            \A token \in TokensIn(access_tokens) \cup
                         (IF last.op = "parse_token_response" /\ last.res.ok
                          THEN {last.res.value} ELSE {}) :
                LET once == TokenCache_insert(access_tokens, token, hash)
                IN  TokenCache_insert(once, token, hash) = once)
    /\ [][(last.op = "parse_token_response" /\ last.res.ok /\ last' = last)
              => access_tokens' = access_tokens]_vars

\* A token has just been inserted into a cache of two entries; inserting
\* it again under the same hash gives the same two entries.
C26_Witness ==
    /\ last.op = "parse_token_response" /\ last.res.ok
    /\ Len(access_tokens) = 2
    /\ now >= 1
    /\ TokenCache_insert(access_tokens, last.res.value, unwrap(last.key)) = access_tokens
    /\ \E i \in 1..Len(access_tokens) :
           access_tokens[i] = [hash |-> unwrap(last.key), token |-> last.res.value]

\* The hashes of cache ascend strictly from slot to slot.
StrictlyAscending(cache) ==
    \A i, j \in 1..Len(cache) : i < j => cache[i].hash < cache[j].hash

\* C27: in every reachable state, after any sequence and interleaving of
\* insert operations, the cache vector is sorted by hash in strictly
\* ascending order (no two entries share a hash), so the binary search in
\* get and insert finds the entry for a hash whenever one exists, and
\* reports a hash that has no entry as absent.
C27_SortedSoSearchFinds ==
    /\ StrictlyAscending(access_tokens)
    /\ StrictlyAscending(id_tokens)
    /\ \A hash \in Hashes :
           LET r == binary_search_by(access_tokens, hash)
           IN  IF EntriesFor(access_tokens, hash) # {}
               THEN r.found /\ access_tokens[r.idx].hash = hash
               ELSE ~r.found

\* A cache of Len(HashTable) entries whose last insert went to the front:
\* the largest hash was inserted before the smallest.
C27_Witness ==
    /\ Len(access_tokens) = Len(HashTable)
    /\ last.op = "parse_token_response" /\ last.res.ok
    /\ unwrap(last.key) = 1
    /\ access_tokens[1].token = last.res.value
    /\ access_tokens[1].token.access_token # access_tokens[2].token.access_token

\* C28: the two caches of a CachedTokenProvider are independent:
\* parse_token_response modifies only the access-token cache,
\* parse_id_token_response modifies only the ID-token cache, and the access
\* token parsed inside get_id_token_with_access_token during the
\* service-account ID-token flow is inserted into neither cache.
C28_CachesIndependent ==
    [][/\ last'.op = "parse_token_response" => id_tokens' = id_tokens
       /\ last'.op = "parse_id_token_response" => access_tokens' = access_tokens
       /\ last'.op = "get_id_token_with_access_token"
              => UNCHANGED <<access_tokens, id_tokens>>]_vars

\* A service account has turned a well-formed access-token response into
\* the request for the ID token; the access-token cache is still empty
\* while the ID-token cache holds a token from an earlier round.
C28_Witness ==
    /\ inner = "ServiceAccount"
    /\ last.op = "get_id_token_with_access_token"
    /\ last.res.ok
    /\ parse_TokenResponse(unwrap(last.response).body).ok
    /\ access_tokens = << >>
    /\ id_tokens # << >>

\* The most recent call was a parser that returned an error.
ParseFailed(call) ==
    /\ call.op \in {"parse_token_response", "parse_id_token_response"}
    /\ ~call.res.ok

\* C29: a failing parse leaves the cache unchanged: when
\* parse_token_response or parse_id_token_response returns an error (a
\* non-2xx status, an undecodable body, an invalid token format), no entry
\* is inserted or overwritten, and a token cached under that hash before
\* is still returned by later lookups while it has not expired.
C29_FailedParseLeavesCache ==
    /\ [][ParseFailed(last') => UNCHANGED <<access_tokens, id_tokens>>]_vars
    /\ [](IsGetToken =>
            LET h == hash_scopes(unwrap(last.key))
            IN  (is_some(returned_tokens[h])
                 /\ ~Token_has_expired(unwrap(returned_tokens[h]), now))
                    => last.res = Ok([type |-> "Token",
                                      token |-> unwrap(returned_tokens[h])]))
    /\ [](last.op = "get_id_token" =>
            LET h == hash_str(unwrap(last.key))
            IN  (is_some(returned_id_tokens[h])
                 /\ ~IdToken_has_expired(unwrap(returned_id_tokens[h]), now))
                    => last.res = Ok([type |-> "IdToken",
                                      token |-> unwrap(returned_id_tokens[h])]))

\* An ID-token response without a dot is refused with InvalidTokenFormat
\* while both caches hold a token that has not expired.
C29_Witness ==
    /\ last.op = "parse_id_token_response"
    /\ last.res = Err([kind |-> "InvalidTokenFormat"])
    /\ HoldsFresh(id_tokens, unwrap(last.key), now)
    /\ \E i \in 1..Len(access_tokens) : ~Token_has_expired(access_tokens[i].token, now)

\* The entries of cache as a set, and the hashes that have one.
EntrySet(cache) == { cache[i] : i \in 1..Len(cache) }
HashSet(cache) == { cache[i].hash : i \in 1..Len(cache) }

\* The entries of cache under a hash other than hash.
OtherEntries(cache, hash) == { e \in EntrySet(cache) : e.hash # hash }

\* C30: insert(token, h) changes at most the entry for h: a successful
\* parse_token_response(h, r) stores the token under exactly the
\* caller-supplied hash h and leaves the hash and token of every other
\* entry unchanged; no operation ever removes an entry, so the set of
\* hashes present in a cache only grows over any sequence of operations.
C30_InsertFrame ==
    /\ [](\A hash \in Hashes :
            \A token \in TokensIn(access_tokens) :
                LET after == TokenCache_insert(access_tokens, token, hash)
                IN  /\ OtherEntries(after, hash) = OtherEntries(access_tokens, hash)
                    /\ [hash |-> hash, token |-> token] \in EntrySet(after))
    /\ [][(last'.op = "parse_token_response" /\ last'.res.ok) =>
              LET h == unwrap(last'.key)
              IN  /\ EntrySet(access_tokens') \ OtherEntries(access_tokens', h)
                         = {[hash |-> h, token |-> last'.res.value]}
                  /\ OtherEntries(access_tokens', h) = OtherEntries(access_tokens, h)]_vars
    /\ [][/\ HashSet(access_tokens) \subseteq HashSet(access_tokens')
          /\ HashSet(id_tokens) \subseteq HashSet(id_tokens')]_vars

\* A parse has just stored its token under the middle hash of three; the
\* entries of the two other hashes, one of them expired, are still there.
C30_Witness ==
    /\ last.op = "parse_token_response" /\ last.res.ok
    /\ Len(access_tokens) = 3
    /\ access_tokens[2] = [hash |-> unwrap(last.key), token |-> last.res.value]
    /\ \E i \in {1, 3} : Token_has_expired(access_tokens[i].token, now)

----------------------------------------------------------------------------
(* The life of a cache entry.                                              *)

\* The state of the entry of hash in cache at time t, as TokenCache::get
\* tells them apart.
EntryState(cache, hash, t) ==
    IF EntriesFor(cache, hash) = {} THEN "Absent"
    ELSE IF HoldsFresh(cache, hash, t) THEN "Fresh"
    ELSE "Expired"

\* call is a parse that stored a token under hash.
StoredUnder(call, op, hash) ==
    /\ call.op = op
    /\ call.res.ok
    /\ call.key = Some(hash)

\* C31 as stated: per hash, a CachedTokenProvider entry is Absent, Fresh
\* or Expired and moves only from Absent or Expired to Fresh, through a
\* successful parse for that hash, and from Fresh to Expired, through the
\* passage of time alone.
C31_OnlyTheThreeTransitions ==
    [][\A hash \in Hashes :
         /\ LET before == EntryState(access_tokens, hash, now)
                after == EntryState(access_tokens', hash, now')
            IN  before # after =>
                  \/ /\ before \in {"Absent", "Expired"} /\ after = "Fresh"
                     /\ StoredUnder(last', "parse_token_response", hash)
                  \/ /\ before = "Fresh" /\ after = "Expired"
                     /\ now' > now /\ access_tokens' = access_tokens
         /\ LET before == EntryState(id_tokens, hash, now)
                after == EntryState(id_tokens', hash, now')
            IN  before # after =>
                  \/ /\ before \in {"Absent", "Expired"} /\ after = "Fresh"
                     /\ StoredUnder(last', "parse_id_token_response", hash)
                  \/ /\ before = "Fresh" /\ after = "Expired"
                     /\ now' > now /\ id_tokens' = id_tokens]_vars

\* C31: per hash, a CachedTokenProvider entry is Absent, Fresh or Expired.
\* It becomes Fresh from Absent or Expired only through a successful parse
\* for that hash; a Fresh entry becomes Expired through the passage of
\* time or through a successful parse for that hash whose token has
\* expired as it is stored, which also takes an Absent entry to Expired;
\* an Expired entry is not Fresh again without a successful parse, and an
\* entry never returns to Absent.
C31_TransitionsWithExpiredArrivals ==
    [][\A hash \in Hashes :
         /\ LET before == EntryState(access_tokens, hash, now)
                after == EntryState(access_tokens', hash, now')
                parsed == StoredUnder(last', "parse_token_response", hash)
            IN  /\ after = "Absent" => before = "Absent"
                /\ (before # "Fresh" /\ after = "Fresh") => parsed
                /\ (before = "Fresh" /\ after = "Expired") =>
                      \/ now' > now /\ access_tokens' = access_tokens
                      \/ parsed /\ Token_has_expired(last'.res.value, now')
                /\ (before = "Absent" /\ after = "Expired") =>
                      parsed /\ Token_has_expired(last'.res.value, now')
         /\ LET before == EntryState(id_tokens, hash, now)
                after == EntryState(id_tokens', hash, now')
                parsed == StoredUnder(last', "parse_id_token_response", hash)
            IN  /\ after = "Absent" => before = "Absent"
                /\ (before # "Fresh" /\ after = "Fresh") => parsed
                /\ (before = "Fresh" /\ after = "Expired") =>
                      \/ now' > now /\ id_tokens' = id_tokens
                      \/ parsed /\ IdToken_has_expired(last'.res.value, now')
                /\ (before = "Absent" /\ after = "Expired") =>
                      parsed /\ IdToken_has_expired(last'.res.value, now')]_vars

\* A successful parse has just stored a token that is expired on arrival
\* over an entry that an earlier parse had made Fresh.
C31_Witness ==
    /\ StoredUnder(last, "parse_token_response", hash_scopes(<<"a", "b">>))
    /\ EntryState(access_tokens, hash_scopes(<<"a", "b">>), now) = "Expired"
    /\ is_some(returned_tokens[hash_scopes(<<"a", "b">>)])
    /\ Token_has_expired(last.res.value, now)
    /\ EntryState(id_tokens, hash_str("a|b"), now) = "Fresh"

----------------------------------------------------------------------------
(* Termination of the callers' flows.                                      *)

\* The round trips a flow takes from a request to its token.
RoundTrips(p, flow) == IF flow = "id" /\ p = "ServiceAccount" THEN 2 ELSE 1

\* C32: under fairness, a caller that executes every request handed to it
\* and receives well-formed 2xx responses carrying tokens that have not
\* expired eventually reaches Done: the access-token flow completes after
\* one round trip and the service-account ID-token flow after exactly two
\* (get_id_token, get_id_token_with_access_token,
\* parse_id_token_response), after which get_token / get_id_token for the
\* same parameters returns a token instead of a further request.
C32_FlowsReachDone ==
    /\ \A c \in FlowCallers : (callers[c].pc # "done") ~> (callers[c].pc = "done")
    /\ [](\A c \in FlowCallers : callers[c].pc # "failed")
    /\ [][\A c \in FlowCallers :
            (callers[c].pc \in {"awaiting", "awaiting_id"} /\ callers'[c].pc = "done")
                => callers'[c].rounds = RoundTrips(inner, callers[c].flow)]_vars
    /\ [][\A c \in FlowCallers :
            (/\ callers[c].pc = "done" /\ callers[c].at = now
             /\ last'.caller = c /\ last'.op \in {"get_token_with_subject", "get_id_token"})
                => /\ callers'[c].pc = "done"
                   /\ last'.res.value.type \in {"Token", "IdToken"}
                   /\ ~last'.inner_called]_vars

\* A caller of a service account has its ID token after two round trips
\* and has asked again, getting the token from the cache.
C32_Witness ==
    /\ inner = "ServiceAccount"
    /\ \E c \in FlowCallers :
          /\ callers[c].pc = "done" /\ callers[c].flow = "id"
          /\ callers[c].rounds = 2
          /\ last.caller = c /\ last.op = "get_id_token"
          /\ last.res.ok /\ last.res.value.type = "IdToken"
          /\ ~last.inner_called

----------------------------------------------------------------------------
(* TokenCache under concurrent get and insert.                             *)

\* Thread c is in a get that has its result.
HasResult(c) == callers[c].pc = "get_release"

\* C33 as stated: a get that runs concurrently with an insert for the same
\* hash returns either the outcome for the state before the insert or
\* Token with the newly inserted token.
C33_BeforeOrNewToken ==
    \A c \in Getters : HasResult(c) =>
        LET result == unwrap(callers[c].result)
        IN  \/ result = TokenCache_get(callers[c].before, callers[c].hash, callers[c].at)
            \/ /\ result.type = "Token"
               /\ result.token \in callers[c].inserted

\* C33: get holds a shared read lock and insert an exclusive write lock, so
\* a get that runs concurrently with an insert for the same hash returns
\* either the outcome for the state before the insert or the outcome for
\* the state after it (Token with the newly inserted token when that token
\* has not expired, RequestReason Expired when it has), never a mixture of
\* the two: the cache does not change between taking the read guard and
\* the return.  Because get returns a clone, a token value already handed
\* to a caller is not altered by any later insert.
C33_GetSeesOneCache ==
    /\ [](\A c \in Getters : HasResult(c) =>
            /\ callers[c].seen = {access_tokens}
            /\ unwrap(callers[c].result)
                   = TokenCache_get(access_tokens, callers[c].hash, callers[c].at)
            /\ \/ unwrap(callers[c].result)
                      = TokenCache_get(callers[c].before, callers[c].hash, callers[c].at)
               \/ /\ callers[c].inserted # {}
                  /\ \E i \in EntriesFor(access_tokens, callers[c].hash) :
                         access_tokens[i].token \in callers[c].inserted)
    /\ [](\A c \in Inserters : callers[c].pc \in {"insert_locked", "insert_release"}
              => \A d \in Getters : callers[d].pc \in {"idle", "get_called"})
    /\ [][\A c \in Getters :
            (callers[c].pc = "idle" /\ callers'[c].pc = "idle")
                => callers'[c].result = callers[c].result]_vars

\* A get called while the entry of its hash was fresh has waited for an
\* insert that overwrote the entry with an expired token, and returns
\* RequestReason Expired at that same time.
C33_Witness ==
    \E c \in Getters :
        /\ HasResult(c)
        /\ callers[c].at = 0
        /\ TokenCache_get(callers[c].before, callers[c].hash, 0).type = "Token"
        /\ callers[c].inserted # {}
        /\ unwrap(callers[c].result).reason = Some("Expired")

----------------------------------------------------------------------------
(* End-user credentials and the requested scopes.                          *)

\* The parameters of the form body of an end-user request: the fields
\* that are not the method, the URI or a header.
FormParameters(request) == DOMAIN request \ {"method", "uri", "content_type"}

\* C34: end-user credentials ignore the requested scopes: for any two scope
\* lists, EndUser get_token (with no subject) builds the same request, a
\* POST to https://oauth2.googleapis.com/token with no query string whose
\* form body contains only client_id, client_secret,
\* grant_type=refresh_token and refresh_token; the scopes influence only
\* the cache key.
C34_EndUserIgnoresScopes ==
    /\ \A S1, S2 \in ScopeLists :
          /\ EndUser_get_token_with_subject(None, S1, now)
                 = EndUser_get_token_with_subject(None, S2, now)
          /\ LET r1 == CachedTokenProvider_get_token_with_subject(
                           "EndUser", FALSE, access_tokens, None, S1, now).res.value
                 r2 == CachedTokenProvider_get_token_with_subject(
                           "EndUser", FALSE, access_tokens, None, S2, now).res.value
             IN  (r1.type = "Request" /\ r2.type = "Request")
                     => r1.request = r2.request
    /\ (IsGetToken /\ inner = "EndUser" /\ last.subject = None
        /\ last.res.ok /\ last.res.value.type = "Request") =>
          LET request == last.res.value.request
          IN  /\ request.method = "POST"
              /\ request.uri = "https://oauth2.googleapis.com/token"
              /\ FormParameters(request)
                     = {"client_id", "client_secret", "grant_type", "refresh_token"}
              /\ request.grant_type = "refresh_token"
              /\ last.res.value.scope_hash = hash_scopes(unwrap(last.key))

\* End-user credentials are asked for <<"b", "a">> while a token is cached
\* for <<"a", "b">>: the request is the one for any scopes, under the
\* cache key of <<"b", "a">>.
C34_Witness ==
    /\ IsGetToken /\ inner = "EndUser" /\ last.subject = None
    /\ last.key = Some(<<"b", "a">>)
    /\ last.res.ok /\ last.res.value.type = "Request"
    /\ last.res.value.request = prepare_token_request
    /\ last.res.value.scope_hash = hash_scopes(<<"b", "a">>)
    /\ HoldsFresh(access_tokens, hash_scopes(<<"a", "b">>), now)

----------------------------------------------------------------------------
(* The unified provider.                                                   *)

\* The number of the three variant tests that hold of p.
TestsTrue(p) ==
    Cardinality({ test \in {"sa", "md", "eu"} :
                    CASE test = "sa" -> is_service_account_provider(p)
                      [] test = "md" -> is_metadata_server_provider(p)
                      [] test = "eu" -> is_end_user_credentials_provider(p) })

\* C35: the unified provider is a faithful dispatcher: for each variant
\* (EndUser, Metadata, ServiceAccount) and each of the five provider
\* operations, TokenProviderWrapperInner returns exactly what the wrapped
\* variant returns for the same arguments, and exactly one of
\* is_service_account_provider, is_metadata_server_provider,
\* is_end_user_credentials_provider is true, matching kind().
C35_FaithfulDispatcher ==
    /\ \A subject \in Subjects, scopes \in ScopeLists :
          /\ Inner_get_token_with_subject("EndUser", subject, scopes, now)
                 = EndUser_get_token_with_subject(subject, scopes, now)
          /\ Inner_get_token_with_subject("Metadata", subject, scopes, now)
                 = Metadata_get_token_with_subject(subject, scopes, now)
          /\ Inner_get_token_with_subject("ServiceAccount", subject, scopes, now)
                 = ServiceAccount_get_token_with_subject(subject, scopes, now)
    /\ \A hash \in Hashes \cup {0}, response \in TokenResponses :
          /\ Inner_parse_token_response("EndUser", hash, response, now)
                 = EndUser_parse_token_response(hash, response, now)
          /\ Inner_parse_token_response("Metadata", hash, response, now)
                 = Metadata_parse_token_response(hash, response, now)
          /\ Inner_parse_token_response("ServiceAccount", hash, response, now)
                 = ServiceAccount_parse_token_response(hash, response, now)
    /\ \A audience \in Audiences :
          /\ Inner_get_id_token("EndUser", audience, now)
                 = EndUser_get_id_token(audience, now)
          /\ Inner_get_id_token("Metadata", audience, now)
                 = Metadata_get_id_token(audience, now)
          /\ Inner_get_id_token("ServiceAccount", audience, now)
                 = ServiceAccount_get_id_token(audience, now)
    /\ \A audience \in Audiences, response \in TokenResponses :
          /\ Inner_get_id_token_with_access_token("EndUser", audience, response, now)
                 = EndUser_get_id_token_with_access_token(audience, response, now)
          /\ Inner_get_id_token_with_access_token("Metadata", audience, response, now)
                 = Metadata_get_id_token_with_access_token(audience, response, now)
          /\ Inner_get_id_token_with_access_token("ServiceAccount", audience, response, now)
                 = ServiceAccount_get_id_token_with_access_token(audience, response, now)
    /\ \A hash \in Hashes \cup {0}, response \in IdTokenResponses :
          /\ Inner_parse_id_token_response("EndUser", hash, response)
                 = EndUser_parse_id_token_response(hash, response)
          /\ Inner_parse_id_token_response("Metadata", hash, response)
                 = Metadata_parse_id_token_response(hash, response)
          /\ Inner_parse_id_token_response("ServiceAccount", hash, response)
                 = ServiceAccount_parse_id_token_response(hash, response)
    /\ \A p \in Kinds :
          /\ TestsTrue(p) = 1
          /\ is_service_account_provider(p)
                 <=> TokenProviderWrapperInner_kind(p) = "Service Account"
          /\ is_metadata_server_provider(p)
                 <=> TokenProviderWrapperInner_kind(p) = "Metadata Server"
          /\ is_end_user_credentials_provider(p)
                 <=> TokenProviderWrapperInner_kind(p) = "End User"
    /\ TestsTrue(inner) = 1
    /\ (last.op = "get_id_token_with_access_token" /\ inner = "EndUser") =>
          last.res = EndUser_get_id_token_with_access_token(
                         unwrap(last.key), unwrap(last.response), now)
    /\ (IsGetToken /\ last.inner_called /\ inner = "EndUser" /\ last.res.ok) =>
          last.res.value.request
              = EndUser_get_token_with_subject(
                    last.subject, unwrap(last.key), now).value.request

\* The provider holds end-user credentials, says so, and has passed a
\* get_token on to them: the request is theirs and has no scopes.
C35_Witness ==
    /\ inner = "EndUser"
    /\ TokenProviderWrapperInner_kind(inner) = "End User"
    /\ is_end_user_credentials_provider(inner)
    /\ ~is_service_account_provider(inner) /\ ~is_metadata_server_provider(inner)
    /\ IsGetToken /\ last.inner_called /\ last.res.ok
    /\ last.res.value.request = prepare_token_request
    /\ now >= 1

----------------------------------------------------------------------------
(* The request for the ID token of a service account.                      *)

\* C36: service-account get_id_token_with_access_token(aud, resp) builds an
\* IdTokenRequest only from a successfully parsed access-token response: if
\* resp is non-2xx or its body cannot be decoded it returns the same error
\* parse_token_response would return and no request; on success the
\* request's Authorization header is "<token_type> <access_token>" from
\* that response and its JSON body carries the given audience and
\* includeEmail = true.
C36_IdTokenRequestFromParsedResponse ==
    (inner = "ServiceAccount" /\ last.op = "get_id_token_with_access_token") =>
        LET response == unwrap(last.response)
            parsed == ServiceAccount_parse_token_response(0, response, now)
        IN  /\ ~parsed.ok => last.res = parsed
            /\ (~is_success(response.status) \/ ~parse_TokenResponse(response.body).ok)
                   => ~last.res.ok /\ last.res = parsed
            /\ last.res.ok =>
                  /\ parsed.ok
                  /\ last.res.value.method = "POST"
                  /\ last.res.value.authorization
                         = parsed.value.token_type \o " " \o parsed.value.access_token
                  /\ last.res.value.authorization
                         = response.body.obj.token_type \o " "
                           \o response.body.obj.access_token
                  /\ last.res.value.body
                         = [audience |-> unwrap(last.key), includeEmail |-> TRUE]
            /\ (parsed.ok /\ ~last.res.ok) =>
                  /\ last.res = Err([kind |-> "Http"])
                  /\ parsed.value.access_token \in InvalidHeaderTexts

\* A 401 response that carries a well-formed token body is refused with
\* the error parse_token_response gives it, after a call that built the
\* request had stored an ID token.
C36_Witness ==
    /\ inner = "ServiceAccount"
    /\ last.op = "get_id_token_with_access_token"
    /\ unwrap(last.response).status = 401
    /\ parse_TokenResponse(unwrap(last.response).body).ok
    /\ ~last.res.ok
    /\ last.res = ServiceAccount_parse_token_response(0, unwrap(last.response), now)
    /\ id_tokens # << >>

----------------------------------------------------------------------------
(* Subjects and the cache.                                                 *)

\* C37: subject isolation in the cache: a Token returned from the cache by
\* CachedTokenProvider.get_token_with_subject(subject, scopes) was obtained
\* through a request built for the same subject; a token fetched for
\* subject A with scopes S is never returned to a later call with the same
\* scopes S and a different subject B or no subject.
C37_SubjectIsolation ==
    (IsGetToken /\ IsToken(last.res))
        => \E scopes \in ScopeLists :
               last.res.value.token.access_token
                   \in { IssuedTo(last.subject, join(scopes, " ")),
                         IssuedTo(last.subject, "granted") }

\* A service account fetched a token for the subject "sub" with scopes
\* <<"a", "b">>; a call with the same scopes and no subject is handed that
\* token from the cache.
C37_Witness ==
    /\ inner = "ServiceAccount"
    /\ IsGetToken /\ IsToken(last.res)
    /\ last.subject = None
    /\ last.key = Some(<<"a", "b">>)
    /\ ~last.inner_called
    /\ last.res.value.token.access_token = IssuedTo(Some("sub"), "a b")

----------------------------------------------------------------------------
(* Scope lists and their hash.                                             *)

\* The scope lists of the two examples: a scope holding the separator
\* against the list of its parts, no scope against one empty scope.
SeparatorLists == ScopeLists \cup { << >>, <<"">> }

\* C38: assuming the underlying string hash has no collisions, two scope
\* lists receive the same scope_hash only if they are the same sequence of
\* scope strings, so tokens cached for one scope list are never served for
\* a different scope list (for example a list whose single scope contains
\* the "|" separator versus the list of its parts, or the empty list
\* versus a list holding one empty string).
C38_HashTellsScopeListsApart ==
    /\ \A S1, S2 \in ScopeLists : hash_scopes(S1) = hash_scopes(S2) => S1 = S2
    /\ \A S1, S2 \in SeparatorLists : join(S1, "|") = join(S2, "|") => S1 = S2
    /\ (inner = "ServiceAccount" /\ IsGetToken /\ IsToken(last.res))
          => \E subject \in Subjects :
                 last.res.value.token.access_token
                     = IssuedTo(subject, join(unwrap(last.key), " "))

\* A service account fetched a token for the one scope "a|b"; a call for
\* the two scopes "a" and "b" is handed that token from the cache.
C38_Witness ==
    /\ inner = "ServiceAccount"
    /\ IsGetToken /\ IsToken(last.res)
    /\ last.subject = None
    /\ last.key = Some(<<"a", "b">>)
    /\ ~last.inner_called
    /\ last.res.value.token.access_token = IssuedTo(None, "a|b")
    /\ hash_scopes(<<"a", "b">>) = hash_scopes(<<"a|b">>)
    /\ join(<< >>, "|") = join(<<"">>, "|")

----------------------------------------------------------------------------
(* Lifetimes that do not fit.                                              *)

\* C39: a token response whose expires_in is negative, or so large that
\* adding it to the current time overflows, is parsed successfully and
\* stored, but its expires_in_timestamp is absent and has_expired() is true
\* for it at every later time, so it is never returned as a cache hit and
\* the next get_token for that hash yields a Request with reason Expired.
C39_OverflowingLifetimeNeverServed ==
    /\ (ParsedTokenResponse
        /\ LET e == unwrap(last.response).body.obj.expires_in
           IN  e < 0 \/ now + e > SystemTimeMax)
          => /\ last.res.ok
             /\ last.res.value.expires_in_timestamp = None
             /\ \E i \in EntriesFor(access_tokens, unwrap(last.key)) :
                    access_tokens[i].token = last.res.value
    /\ \A i \in 1..Len(access_tokens) :
          access_tokens[i].token.expires_in_timestamp = None
              => \A t \in now..MaxTime : Token_has_expired(access_tokens[i].token, t)
    /\ (IsGetToken /\ last.subject = None) =>
          LET h == hash_scopes(unwrap(last.key))
          IN  (\E i \in EntriesFor(access_tokens, h) :
                   access_tokens[i].token.expires_in_timestamp = None)
                  => /\ IsRequest(last.res)
                     /\ last.res.value.reason = "Expired"
                     /\ last.res.value.scope_hash = h

\* The greatest lifetime an i64 holds arrived a second after the epoch of
\* the model; time has passed, and get_token is handed a request with
\* reason Expired while the token lies in the cache.
C39_Witness ==
    /\ IsGetToken /\ last.subject = None
    /\ IsRequest(last.res)
    /\ last.res.value.reason = "Expired"
    /\ now = MaxTime
    /\ \E i \in EntriesFor(access_tokens, hash_scopes(unwrap(last.key))) :
          /\ access_tokens[i].token.expires_in = Some(SystemTimeMax)
          /\ access_tokens[i].token.expires_in_timestamp = None

----------------------------------------------------------------------------
(* Discovery without a base directory.                                     *)

\* The platform's base-directory variable: APPDATA on Windows, HOME
\* elsewhere.
BaseDirectory(env) == IF env.windows THEN env.APPDATA ELSE env.HOME

\* Nothing in env leads to a credentials file.
NoCredentialsPath(env) ==
    /\ env.GOOGLE_APPLICATION_CREDENTIALS = None
    /\ env.CLOUDSDK_CONFIG = None
    /\ BaseDirectory(env) = None

\* C40: when GOOGLE_APPLICATION_CREDENTIALS and CLOUDSDK_CONFIG are both
\* unset and the platform base-directory variable (HOME, or APPDATA on
\* Windows) is also unset, get_default_provider determines no ADC path,
\* skips the end-user step without reading any file and without error, and
\* proceeds directly to the metadata-server check.
C40_NoBaseDirectorySkipsEndUser ==
    (IsDiscovery /\ NoCredentialsPath(unwrap(last.key))) =>
        LET env == unwrap(last.key)
        IN  /\ gcloud_config_file(env) = None
            /\ service_account_step(env) = None
            /\ end_user_step(env) = None
            /\ last.res.ok
            /\ last.res = IF is_some(metadata_step(env)) THEN unwrap(metadata_step(env))
                          ELSE Ok(None)
            /\ \A key_file \in KeyFiles, adc_file \in AdcFiles :
                   get_default_provider([env EXCEPT !.key_file = key_file,
                                                    !.adc_file = adc_file]) = last.res
            /\ (last.res.value # None) <=>
                   (env.product_name.ok
                    /\ trim(env.product_name.value.text)
                           \in {"Google", "Google Compute Engine"})

\* On a Compute Engine machine with no variable set, on which credentials
\* of an end user lie in a file no variable leads to, the discovery gives
\* the metadata server provider.
C40_Witness ==
    /\ IsDiscovery
    /\ NoCredentialsPath(unwrap(last.key))
    /\ ~unwrap(last.key).windows
    /\ unwrap(last.key).APPDATA # None
    /\ unwrap(last.key).adc_file.ok
    /\ EndUserCredentialsInfo_deserialize(unwrap(last.key).adc_file.value).ok
    /\ last.res.ok /\ last.res.value # None
    /\ inner = "Metadata"

====
